---- MODULE Spec2Model ----
(***************************************************************************)
(* monotestrunner, interactive mode: the run scheduler of                  *)
(* src/src/views/interactive.js (runPackageTests and the closures of       *)
(* runInteractiveMode), the coverage flags of views/state.js, the output   *)
(* parsers of src/src/parsers.js and the report readers of                 *)
(* src/src/coverage.js.                                                    *)
(*                                                                         *)
(* The orchestrator is single-threaded: every event handler (keypress,     *)
(* stdout/stderr chunk, process close, debounce timer) runs to completion, *)
(* so each handler is one action.  Handlers are written as operators over  *)
(* a store S, the record of the mutable objects the handlers share.        *)
(***************************************************************************)
EXTENDS Integers, Sequences, FiniteSets, TLC

VARIABLES
    packages,          \* the package list given to runInteractiveMode (immutable)
    states,            \* states[name]: the RunState of each package
    procs,             \* procs[name]: the live child processes of each package, oldest first
    childProcesses,    \* keys of the childProcesses Map
    pendingReruns,     \* the pendingReruns Set
    pendingRunAll,     \* the pendingRunAll flag
    coverageFlags,     \* coverageFlags[name]
    coverageSnapshot,  \* coverageSnapshot[name]
    selectedIndex,     \* viewState.summary.selectedIndex (0-based)
    initialPromises,   \* names whose initial-run promise is unsettled
    watchEnabled,      \* viewState.watchEnabled
    watcher,           \* watcher !== null in createWatcherManager
    debounceTimer,     \* the pending debounce timeout and the file it was set for
    viewState,         \* createViewState() without summary.selectedIndex and spinnerIdx
    dimTimer,          \* the timeout of createCursorDimTimer and the timers it has pending
    signalled,         \* names of the children that were sent SIGTERM
    burst,             \* history: the files changed since the debounce timer was last idle
    cycles,            \* history: the flags before each coverage-all cycle (the last
                       \* three) since the last single toggle
    phase,             \* "setup" | "running" | "crashed" | "exited"
    lcovRecord,        \* an lcov record and the line statuses derived from it
    cli,               \* the one-shot run of cli.js: flags, progress and process exit
    lastStep           \* history: what the last handler did

vars == <<packages, states, procs, childProcesses, pendingReruns, pendingRunAll,
          coverageFlags, coverageSnapshot, selectedIndex, initialPromises,
          watchEnabled, watcher, debounceTimer, viewState, dimTimer, signalled,
          burst, cycles, phase, lcovRecord, cli, lastStep>>

watchVars == <<watchEnabled, watcher, debounceTimer, burst>>

\* what the handlers of the interactive mode never touch
batchVars == <<lcovRecord, cli>>

Max(a, b) == IF a > b THEN a ELSE b
\* no upper clamp
Unclamped(a, b) == b
Min(a, b) == IF a < b THEN a ELSE b

None == "null"
Undefined == "undefined"
\* null where the other values are numbers (files, tests, duration, exitCode)
NullNum == 0 - 1

----------------------------------------------------------------------------
(* Bounds and input sets *)

\* a process emits a further chunk only while its captured output (stdout and
\* stderr together) is shorter than MaxChunks tokens
MaxChunks == 2

\* the popover is scrolled down at most so many lines
MaxPopoverScroll == 2

\* an lcov record has at most so many DA and BRDA lines
MaxLcovLines == 3

ExitCodes == {0, 1}

\* the package lists the model is run on: name and detected runner
\* (runner None: no test script, or a script no adapter recognises)
TwoRunners ==
    << [name |-> "a", runner |-> "vitest", path |-> <<"pkgs", "a">>],
       [name |-> "b", runner |-> "bun", path |-> <<"pkgs", "b">>] >>
WithUnrunnable ==
    << [name |-> "a", runner |-> "vitest", path |-> <<"pkgs", "a">>],
       [name |-> "u", runner |-> None, path |-> <<"pkgs", "u">>] >>

\* config.watchMappings; a pattern "dir/**" is the path of dir
watchMappings ==
    << [paths |-> << <<"pkgs", "b", "shared">> >>, triggers |-> [all |-> FALSE, names |-> <<"a">>]],
       [paths |-> << <<"config">>, <<"pkgs", "b", "shared">> >>, triggers |-> [all |-> TRUE, names |-> <<>>]] >>

\* the files that change
Files == { <<"pkgs", "a", "src", "x">>, <<"pkgs", "b", "shared", "y">>, <<"config", "z">> }

Names == { packages[i].name : i \in 1..Len(packages) }
PkgOf(name) == CHOOSE i \in 1..Len(packages) : packages[i].name = name

\* outcomes of child_process.spawn
SpawnOk == {"ok"}
SpawnAny == {"ok", "crash", "stuck"}

\* what the close handler finds on disk
JunitFiles == {"missing", "unreadable", "empty", "noTestsuites", "ok"}
SummaryFiles == {"missing", "malformed", "ok"}
LcovReadable == {"missing", "noRecords", "ok"}
LcovAny == LcovReadable \cup {"unreadable"}

----------------------------------------------------------------------------
(* Output text.  A chunk is a sequence of tokens: a marker character or a  *)
(* final-summary block as the runner prints it.                            *)

Mid == [t |-> "char", c |-> "mid"]        \* the vitest pass marker
Dash == [t |-> "char", c |-> "dash"]      \* -
Times == [t |-> "char", c |-> "times"]    \* the vitest fail marker
Period == [t |-> "char", c |-> "period"]  \* .

\* "Test Files 1 failed | 1 passed (2)  Tests 1 failed | 2 passed | 1 skipped (4)  Duration 250ms"
VitestSummary == [t |-> "vitest", files |-> 2, tests |-> 4, passed |-> 2, skipped |-> 1,
                  failed |-> 1, value |-> 250, unit |-> "ms"]
\* "3 pass 0 fail Ran 3 tests across 1 file. [2s]": the text holds one period
BunSummary == [t |-> "bun", files |-> 1, tests |-> 3, passed |-> 3, skipped |-> 0,
               failed |-> 0, value |-> 2, unit |-> "s", periods |-> 1]

\* the chunks a child of each runner may emit
AllChunks(runner) ==
    IF runner = "vitest"
    THEN { <<Mid>>, <<Times, VitestSummary>> }
    ELSE { <<Period>>, <<BunSummary>> }

OneChunk(runner) == IF runner = "vitest" THEN { <<Mid>> } ELSE { <<Period>> }

RECURSIVE Count(_, _)
Count(text, c) ==
    IF text = <<>> THEN 0
    ELSE LET h == Head(text)
             n == IF h.t = "char" THEN (IF h.c = c THEN 1 ELSE 0)
                  ELSE IF h.t = "bun" /\ c = "period" THEN h.periods
                  ELSE 0
         IN n + Count(Tail(text), c)

countVitestDots(chunk) ==
    [passed |-> Count(chunk, "mid"), skipped |-> Count(chunk, "dash"),
     failed |-> Count(chunk, "times")]

countBunDots(chunk) ==
    [passed |-> Count(chunk, "period"), skipped |-> 0, failed |-> 0]

\* first token of the output that the summary patterns of a runner match
RECURSIVE FirstMatch(_, _)
FirstMatch(output, kind) ==
    IF output = <<>> THEN [t |-> "nomatch"]
    ELSE IF Head(output).t = kind THEN Head(output)
    ELSE FirstMatch(Tail(output), kind)

\* durations are kept in milliseconds (the code keeps seconds: value / 1000 for "ms")
Millis(m) == IF m.unit = "ms" THEN m.value ELSE m.value * 1000

ZeroResult == [files |-> 0, tests |-> 0, passed |-> 0, skipped |-> 0, failed |-> 0, duration |-> 0]

FinalOf(m) ==
    IF m.t = "nomatch" THEN ZeroResult
    ELSE [files |-> m.files, tests |-> m.tests, passed |-> m.passed, skipped |-> m.skipped,
          failed |-> m.failed, duration |-> Millis(m)]

parseVitestFinal(output) == FinalOf(FirstMatch(output, "vitest"))

parseBunFinal(output) == FinalOf(FirstMatch(output, "bun"))

----------------------------------------------------------------------------
(* Report readers *)

NullReport == [kind |-> "null"]
UndefinedReport == [kind |-> "undefined"]
\* a parsed report: the number of tests of each suite
Report == [kind |-> "report", suites |-> <<2, 1>>]

parseJunitFile(f) == IF f = "ok" THEN Report ELSE NullReport

readCoverageSummary(f) == IF f = "ok" THEN "summaryStats" ELSE None

\* "throws": readFileSync is not guarded
parseLcovDetailed(f) ==
    CASE f = "missing" -> [ret |-> "null"]
      [] f = "unreadable" -> [ret |-> "throws"]
      [] f = "noRecords" -> [ret |-> "files", files |-> <<>>]
      [] OTHER -> [ret |-> "files", files |-> <<"file">>]

getPackageCoverage(summary, lcov) ==
    LET stats == readCoverageSummary(summary) IN
    IF stats # None THEN stats
    ELSE LET files == parseLcovDetailed(lcov) IN
         IF files.ret = "throws" THEN "throws"
         ELSE IF files.ret = "files" /\ Len(files.files) > 0 THEN "lcovStats"
         ELSE None

\* The DA: and BRDA: lines of one lcov record (between SF: and
\* end_of_record).  DA:<line>,<count>; BRDA:<line>,<block>,<branch>,<taken>
\* where taken is a count or '-' (the branch was never evaluated).
Unevaluated == 0 - 1

DA(lineNum, count) == [tag |-> "DA", line |-> lineNum, value |-> count]
BRDA(lineNum, taken) == [tag |-> "BRDA", line |-> lineNum, value |-> taken]

\* the line numbers, execution counts and taken counts that occur
SourceLines == {1, 2}
Counts == {0, 1, 2}
Takens == {Unevaluated, 0, 1}

LcovLines ==
    { DA(l, n) : l \in SourceLines, n \in Counts }
    \cup { BRDA(l, t) : l \in SourceLines, t \in Takens }

\* Map.prototype.set
MapSet(map, key, value) ==
    [k \in DOMAIN map \cup {key} |-> IF k = key THEN value ELSE map[k]]

\* new Map()
NewMap == [k \in {} |-> 0]

\* the DA and BRDA branches of the line loop of parseLcovDetailed
RECURSIVE parseRecord(_, _, _)
parseRecord(content, i, current) ==
    IF i > Len(content) THEN current
    ELSE IF content[i].tag = "DA"
    THEN parseRecord(content, i + 1,
                     [current EXCEPT !.lineHits = MapSet(@, content[i].line, content[i].value)])
    ELSE LET lineNum == content[i].line
             taken == IF content[i].value = Unevaluated THEN 0 ELSE content[i].value
             existing == IF lineNum \in DOMAIN current.branchHits
                         THEN current.branchHits[lineNum]
                         ELSE [total |-> 0, taken |-> 0]
         IN parseRecord(content, i + 1,
                        [current EXCEPT !.branchHits =
                            MapSet(@, lineNum,
                                   [total |-> existing.total + 1,
                                    taken |-> existing.taken + (IF taken > 0 THEN 1 ELSE 0)])])

\* a status that looks at the branches before the execution count
getLineCoverageStatusBranchesFirst(lineNum, lineHits, branchHits) ==
    IF lineNum \notin DOMAIN lineHits THEN None
    ELSE IF lineNum \in DOMAIN branchHits
            /\ branchHits[lineNum].taken < branchHits[lineNum].total THEN "partial"
    ELSE IF lineHits[lineNum] = 0 THEN "uncovered"
    ELSE "covered"

\* None: the line is not instrumented
getLineCoverageStatus(lineNum, lineHits, branchHits) ==
    IF lineNum \notin DOMAIN lineHits THEN None
    ELSE IF lineHits[lineNum] = 0 THEN "uncovered"
    ELSE IF lineNum \in DOMAIN branchHits
            /\ branchHits[lineNum].taken < branchHits[lineNum].total THEN "partial"
    ELSE "covered"

\* no record written, no status derived
NoRecord == [content |-> <<>>, read |-> FALSE, status |-> [l \in SourceLines |-> "unread"]]

\* cli.js before main() is called.  at: "none" | "interactive" | "run" (the
\* one-shot run is under way) | "exit" (process.exit was called with `code`)
NotStarted ==
    [at |-> "none", isCI |-> FALSE, isTTY |-> FALSE, failed |-> <<>>,
     code |-> NullNum, why |-> "none"]

----------------------------------------------------------------------------
(* RunState *)

createInitialState ==
    [status |-> "pending", passed |-> 0, skipped |-> 0, failed |-> 0,
     files |-> NullNum, tests |-> NullNum, duration |-> NullNum, exitCode |-> NullNum,
     output |-> <<>>, coverage |-> Undefined, testResults |-> UndefinedReport]

\* a reset that keeps the counts and the parsed results of the previous run
ResetStateKeepsResults(st) == [st EXCEPT !.status = "running", !.exitCode = NullNum, !.output = <<>>]

\* the assignments at the top of runPackageTests
ResetState(st) ==
    [st EXCEPT !.status = "running", !.passed = 0, !.skipped = 0, !.failed = 0,
               !.files = NullNum, !.tests = NullNum, !.duration = NullNum,
               !.exitCode = NullNum, !.output = <<>>, !.coverage = None,
               !.testResults = NullReport]

----------------------------------------------------------------------------
(* The store a handler works on: the shared objects, the environment's     *)
(* answers for this handler (outcome) and a log of what the handler did.   *)

\* no onUpdate('completed') in this handler
NoSnapshot == [status |-> "none"]

\* history of a key step: the event, and the selection, the overlay, the
\* dimmed state, the popover of the tests screen and the source files of the
\* lcov file it found
NoKey == [evt |-> [type |-> "none", direction |-> 0, action |-> None], sel |-> 0 - 1,
          help |-> FALSE, dimmed |-> FALSE, popover |-> FALSE, offset |-> 0,
          files |-> 0]

\* history of a render: the list the last smart scroll was made for and the
\* scroll offset it left
NoScroll == [totalRows |-> 0 - 1, visibleRows |-> 0 - 1, cursorRow |-> 0 - 1,
             scrollOffset |-> 0 - 1]

\* no changed file recorded
NoFile == <<>>

NoStep == [op |-> "none", pkg |-> None, code |-> NullNum, spawned |-> <<>>,
           requested |-> <<>>, completed |-> NoSnapshot, called |-> FALSE, key |-> NoKey,
           scrolled |-> NoScroll, triggers |-> <<>>, file |-> NoFile]

\* term: what a render of this handler finds: the terminal rows, the lcov
\* file of the selected package and the body lines of the popover
Store(outcome, term) ==
    [states |-> states, procs |-> procs, childProcesses |-> childProcesses,
     pendingReruns |-> pendingReruns, pendingRunAll |-> pendingRunAll,
     coverageFlags |-> coverageFlags, coverageSnapshot |-> coverageSnapshot,
     view |-> viewState, sel |-> selectedIndex, dim |-> dimTimer,
     signalled |-> signalled, watchEnabled |-> watchEnabled, watcher |-> watcher,
     debounceTimer |-> debounceTimer, burst |-> burst, term |-> term,
     cycles |-> cycles, history |-> {}, key |-> NoKey, scrolled |-> NoScroll,
     triggers |-> <<>>, file |-> NoFile,
     outcome |-> outcome, fault |-> "none", initial |-> FALSE,
     spawned |-> <<>>, requested |-> <<>>, completed |-> NoSnapshot, called |-> FALSE]

\* a terminal of so many rows, an lcov file with so many source files (none:
\* no lcov file) and a popover body of so many lines
Terminal(rows, files, body) ==
    [rows |-> rows, lcov |-> [exists |-> files > 0, files |-> files], body |-> body]

AnyRunning(S) == \E n \in Names : S.states[n].status = "running"

----------------------------------------------------------------------------
(* View state (views/state.js), rows of the detail screens and render.     *)
(* Row and cursor indices are 0-based as in the code.                      *)

HEADER_LINES == 5
FOOTER_LINES == 1
POPOVER_HEADER_LINES == 4

createViewState ==
    [currentScreen |-> "summary", helpVisible |-> FALSE, cursorDimmed |-> FALSE,
     tests |-> [selectedIndex |-> 0, scrollOffset |-> 0, popoverVisible |-> FALSE,
                popoverScrollOffset |-> 0],
     coverage |-> [selectedIndex |-> 0, scrollOffset |-> 0]]

resetTestsState(v) ==
    [v EXCEPT !.tests = [selectedIndex |-> 0, scrollOffset |-> 0, popoverVisible |-> FALSE,
                         popoverScrollOffset |-> 0]]

resetCoverageState(v) == [v EXCEPT !.coverage = [selectedIndex |-> 0, scrollOffset |-> 0]]

RECURSIVE RowsFrom(_, _)
RowsFrom(suites, rows) ==
    IF suites = <<>> THEN rows
    ELSE RowsFrom(Tail(suites),
                  rows \o (IF Len(rows) > 0 THEN <<"blank">> ELSE <<>>) \o <<"suite">>
                       \o [k \in 1..Head(suites) |-> "test"])

buildTestRows(testResults) ==
    IF testResults.kind # "report" THEN <<>> ELSE RowsFrom(testResults.suites, <<>>)

\* lcov: [exists, files]: the relevant files of the package's lcov.info
buildCoverageRows(lcov) ==
    IF ~lcov.exists THEN <<>>
    ELSE <<"header", "separator">> \o [k \in 1..lcov.files |-> "file"]
            \o <<"separator", "total">>

\* the indices, in order, of the rows of a type
RECURSIVE IndicesOf(_, _, _)
IndicesOf(rows, type, i) ==
    IF i >= Len(rows) THEN <<>>
    ELSE (IF rows[i + 1] = type THEN <<i>> ELSE <<>>) \o IndicesOf(rows, type, i + 1)

getSelectableIndices(rows) == IndicesOf(rows, "test", 0)

getSelectableFileIndices(rows) == IndicesOf(rows, "file", 0)

includes(seq, x) == \E i \in 1..Len(seq) : seq[i] = x

\* position of x in seq, 0-based; -1 when absent
indexOf(seq, x) ==
    IF includes(seq, x) THEN (CHOOSE i \in 1..Len(seq) : seq[i] = x) - 1 ELSE 0 - 1

Abs(x) == IF x < 0 THEN 0 - x ELSE x

\* selectable.reduce((prev, curr) => |curr - x| < |prev - x| ? curr : prev)
RECURSIVE NearestFrom(_, _, _)
NearestFrom(rest, prev, x) ==
    IF rest = <<>> THEN prev
    ELSE NearestFrom(Tail(rest),
                     IF Abs(Head(rest) - x) < Abs(prev - x) THEN Head(rest) ELSE prev, x)

Nearest(selectable, x) == NearestFrom(Tail(selectable), Head(selectable), x)

\* a scroll that follows the cursor upwards only
smartScrollUpOnly(scrollOffset, cursorRow, totalRows, visibleRows) ==
    LET up == IF cursorRow < scrollOffset THEN cursorRow ELSE scrollOffset
        maxScroll == Max(0, totalRows - visibleRows)
    IN Max(0, Min(up, maxScroll))

\* "Smart scroll: keep cursor visible" and "Clamp" of the list renderers
smartScroll(scrollOffset, cursorRow, totalRows, visibleRows) ==
    LET up == IF cursorRow < scrollOffset THEN cursorRow ELSE scrollOffset
        down == IF cursorRow >= up + visibleRows THEN cursorRow - visibleRows + 1 ELSE up
        maxScroll == Max(0, totalRows - visibleRows)
    IN Max(0, Min(down, maxScroll))

getPopoverBoxHeight(headerLen, bodyLen, maxContentRows) ==
    headerLen + Min(bodyLen, Max(0, maxContentRows - headerLen)) + 2

getPopoverMaxScroll(headerLen, bodyLen, maxContentRows) ==
    Max(0, bodyLen - Max(0, maxContentRows - headerLen))

\* rows of the list above the popover in renderSplitView
topRowsOf(testRows, cursorRow, contentRows, bodyLen) ==
    LET hasContent == cursorRow < Len(testRows) /\ testRows[cursorRow + 1] = "test"
        maxContentRows == Max(1, (contentRows \div 2) - 2)
        boxHeight == IF hasContent
                     THEN getPopoverBoxHeight(POPOVER_HEADER_LINES, bodyLen, maxContentRows)
                     ELSE 3
    IN Max(1, contentRows - 1 - boxHeight)

SelectedName(S) == packages[S.sel + 1].name

renderTestsScreen(S) ==
    LET contentRows == S.term.rows - HEADER_LINES - FOOTER_LINES
        testRows == buildTestRows(S.states[SelectedName(S)].testResults)
        selectableIndices == getSelectableIndices(testRows)
        t == S.view.tests
        visible == IF t.popoverVisible /\ Len(selectableIndices) > 0
                   THEN topRowsOf(testRows, t.selectedIndex, contentRows, S.term.body)
                   ELSE contentRows
        offset == smartScroll(t.scrollOffset, t.selectedIndex, Len(testRows), visible)
    IN IF Len(testRows) = 0 THEN S
       ELSE [S EXCEPT !.view.tests.scrollOffset = offset,
                      !.scrolled = [totalRows |-> Len(testRows), visibleRows |-> visible,
                                    cursorRow |-> t.selectedIndex, scrollOffset |-> offset]]

\* coverageState has no popoverVisible: the list is always rendered in full
renderCoverageScreen(S) ==
    LET contentRows == S.term.rows - HEADER_LINES - FOOTER_LINES
        covRows == buildCoverageRows(S.term.lcov)
        v == S.view.coverage
        offset == smartScroll(v.scrollOffset, v.selectedIndex, Len(covRows), contentRows)
    IN IF ~S.coverageFlags[SelectedName(S)] \/ Len(covRows) = 0 THEN S
       ELSE [S EXCEPT !.view.coverage.scrollOffset = offset,
                      !.scrolled = [totalRows |-> Len(covRows), visibleRows |-> contentRows,
                                    cursorRow |-> v.selectedIndex, scrollOffset |-> offset]]

render(S) ==
    IF S.view.helpVisible THEN S
    ELSE CASE S.view.currentScreen = "tests" -> renderTestsScreen(S)
           [] S.view.currentScreen = "coverage" -> renderCoverageScreen(S)
           [] OTHER -> S

clampCursors(S) ==
    LET testSelectable == getSelectableIndices(
                              buildTestRows(S.states[SelectedName(S)].testResults))
        covSelectable == getSelectableFileIndices(buildCoverageRows(S.term.lcov))
        tsel == S.view.tests.selectedIndex
        csel == S.view.coverage.selectedIndex
    IN [S EXCEPT !.view.tests.selectedIndex =
                     IF Len(testSelectable) > 0
                     THEN (IF includes(testSelectable, tsel) THEN tsel
                           ELSE Nearest(testSelectable, tsel))
                     ELSE 0,
                 !.view.coverage.selectedIndex =
                     IF Len(covSelectable) > 0
                     THEN (IF includes(covSelectable, csel) THEN csel
                           ELSE Nearest(covSelectable, csel))
                     ELSE 0]

onUpdate(S, type) ==
    IF S.view.helpVisible THEN S
    ELSE IF S.view.currentScreen = "summary" THEN render(S)
    ELSE IF type = "completed" THEN render(clampCursors(S))
    ELSE S

\* createCursorDimTimer: handle: timeout is not null; live: the timer it names
\* has not fired and was not cleared; pending: the timers set and not yet
\* fired or cleared
createCursorDimTimer == [handle |-> FALSE, live |-> FALSE, pending |-> 0]

\* a reset that sets a new timer without clearing the one before
resetDimKeepsTimer(S) ==
    LET U == IF S.view.cursorDimmed
             THEN render([S EXCEPT !.view.cursorDimmed = FALSE])
             ELSE S
    IN [U EXCEPT !.dim = [handle |-> TRUE, live |-> TRUE, pending |-> S.dim.pending + 1]]

resetDim(S) ==
    LET d == S.dim
        cleared == IF d.handle /\ d.live THEN d.pending - 1 ELSE d.pending
        U == IF S.view.cursorDimmed
             THEN render([S EXCEPT !.view.cursorDimmed = FALSE])
             ELSE S
    IN [U EXCEPT !.dim = [handle |-> TRUE, live |-> TRUE, pending |-> cleared + 1]]

stopDim(S) ==
    IF S.dim.handle
    THEN [S EXCEPT !.dim = [handle |-> FALSE, live |-> FALSE,
                            pending |-> IF S.dim.live THEN S.dim.pending - 1
                                        ELSE S.dim.pending]]
    ELSE S

\* runPackageTests: reset the RunState, spawn, track the child.  The close and
\* data handlers it registers are the actions Close, StdoutData and StderrData.
\*   outcome "ok":    the child runs
\*   outcome "crash": spawn emits 'error' on the child; no listener is registered
\*   outcome "stuck": spawn throws inside the promise executor
\* a launch that never passes the coverage option
runPackageTestsWithoutCoverage(S, name, onComplete, coverageEnabled) ==
    LET R == onUpdate([S EXCEPT !.states[name] = ResetState(@)], "started")
        child == [onComplete |-> onComplete, coverageEnabled |-> FALSE,
                  output |-> <<>>, initial |-> S.initial]
    IN CASE S.outcome[name] = "ok" ->
              [R EXCEPT !.procs[name] = Append(@, child),
                        !.childProcesses = @ \cup {name},
                        !.spawned = Append(@, name)]
         [] S.outcome[name] = "crash" ->
              [R EXCEPT !.childProcesses = @ \cup {name}, !.fault = "crash"]
         [] OTHER -> R

runPackageTests(S, name, onComplete, coverageEnabled) ==
    LET R == onUpdate([S EXCEPT !.states[name] = ResetState(@)], "started")
        child == [onComplete |-> onComplete, coverageEnabled |-> coverageEnabled,
                  output |-> <<>>, initial |-> S.initial]
    IN CASE S.outcome[name] = "ok" ->
              [R EXCEPT !.procs[name] = Append(@, child),
                        !.childProcesses = @ \cup {name},
                        !.spawned = Append(@, name)]
         [] S.outcome[name] = "crash" ->
              [R EXCEPT !.childProcesses = @ \cup {name}, !.fault = "crash"]
         [] OTHER -> R

\* runPkg without the check of the running status
runPkgUnguarded(S, name) ==
    runPackageTests([S EXCEPT !.requested = Append(@, name)], name, "onPkgComplete",
                    S.coverageFlags[name])

runPkg(S, name) ==
    LET Q == [S EXCEPT !.requested = Append(@, name)] IN
    IF S.states[name].status = "running"
    THEN render([Q EXCEPT !.pendingReruns = @ \cup {name}])
    ELSE runPackageTests(Q, name, "onPkgComplete", Q.coverageFlags[name])

\* onPkgComplete without the check of pendingRunAll
onPkgCompleteUnsuppressed(S, name) ==
    IF name \in S.pendingReruns
    THEN runPackageTests([S EXCEPT !.pendingReruns = @ \ {name}], name,
                         "onPkgComplete", S.coverageFlags[name])
    ELSE S

onPkgComplete(S, name) ==
    IF S.pendingRunAll THEN S
    ELSE IF name \in S.pendingReruns
    THEN runPackageTests([S EXCEPT !.pendingReruns = @ \ {name}], name,
                         "onPkgComplete", S.coverageFlags[name])
    ELSE S

RECURSIVE runAllFrom(_, _)
runAllFrom(S, i) ==
    IF i > Len(packages) THEN S
    ELSE runAllFrom(runPackageTests(S, packages[i].name, "thenCheckPendingRunAll",
                                    S.coverageFlags[packages[i].name]), i + 1)

runAllNow(S) == runAllFrom(S, 1)

checkPendingRunAll(S) ==
    IF ~S.pendingRunAll THEN S
    ELSE IF \A n \in Names : S.states[n].status # "running"
    THEN runAllNow([S EXCEPT !.pendingRunAll = FALSE, !.pendingReruns = {}])
    ELSE S

runAll(S) ==
    IF AnyRunning(S) THEN render([S EXCEPT !.pendingRunAll = TRUE])
    ELSE runAllNow(S)

\* rerunPackages that returns after the first name
rerunPackagesFirstOnly(S, pkgNames) ==
    IF pkgNames = <<>> THEN S
    ELSE IF Head(pkgNames) \in Names THEN runPkg(S, Head(pkgNames)) ELSE S

RECURSIVE rerunPackages(_, _)
rerunPackages(S, pkgNames) ==
    IF pkgNames = <<>> THEN S
    ELSE rerunPackages(IF Head(pkgNames) \in Names THEN runPkg(S, Head(pkgNames)) ELSE S,
                       Tail(pkgNames))

\* a completion that leaves the queued rerun where it is
CompleteLeavesQueue(S, name, onComplete) ==
    LET C == [S EXCEPT !.called = TRUE] IN
    IF onComplete = "onPkgComplete" THEN C ELSE checkPendingRunAll(C)

\* the onComplete callback a child was started with
Complete(S, name, onComplete) ==
    LET C == [S EXCEPT !.called = TRUE] IN
    IF onComplete = "onPkgComplete" THEN onPkgComplete(C, name)
    ELSE checkPendingRunAll(onPkgComplete(C, name))

----------------------------------------------------------------------------
(* Coverage flags (views/state.js).  Object.keys(flags) is the package order. *)

createCoverageFlags(initialValue) == [n \in Names |-> initialValue]

getCoverageMode(flags) ==
    IF DOMAIN flags = {} THEN "none"
    ELSE IF \A n \in DOMAIN flags : flags[n] THEN "all"
    ELSE IF \A n \in DOMAIN flags : ~flags[n] THEN "none"
    ELSE "some"

\* the names, in package order, that are off in `was` and on in `now`
RECURSIVE TurnedOn(_, _, _)
TurnedOn(was, now, i) ==
    IF i > Len(packages) THEN <<>>
    ELSE LET n == packages[i].name IN
         (IF ~was[n] /\ now[n] THEN <<n>> ELSE <<>>) \o TurnedOn(was, now, i + 1)

\* a cycle that turns everything on again from all off
cycleCoverageNoRestore(flags, snapshot) ==
    LET mode == getCoverageMode(flags)
        on == [n \in DOMAIN flags |-> TRUE]
    IN CASE mode = "some" ->
              [flags |-> on, snapshot |-> flags, changedToOn |-> TurnedOn(flags, on, 1)]
         [] mode = "all" ->
              [flags |-> [n \in DOMAIN flags |-> FALSE], snapshot |-> snapshot,
               changedToOn |-> <<>>]
         [] OTHER ->
              [flags |-> on, snapshot |-> snapshot, changedToOn |-> TurnedOn(flags, on, 1)]

\* a cycle that reports every package as turned on
cycleCoverageReportsAll(flags, snapshot) ==
    LET mode == getCoverageMode(flags) IN
    CASE mode = "some" ->
           [flags |-> [n \in DOMAIN flags |-> TRUE], snapshot |-> flags,
            changedToOn |-> [i \in 1..Len(packages) |-> packages[i].name]]
      [] mode = "all" ->
           [flags |-> [n \in DOMAIN flags |-> FALSE], snapshot |-> snapshot,
            changedToOn |-> <<>>]
      [] OTHER ->
           LET now == [n \in DOMAIN flags |-> snapshot[n]] IN
           [flags |-> now, snapshot |-> snapshot, changedToOn |-> TurnedOn(flags, now, 1)]

cycleCoverage(flags, snapshot) ==
    LET mode == getCoverageMode(flags) IN
    CASE mode = "some" ->
           LET now == [n \in DOMAIN flags |-> TRUE] IN
           [flags |-> now, snapshot |-> flags, changedToOn |-> TurnedOn(flags, now, 1)]
      [] mode = "all" ->
           [flags |-> [n \in DOMAIN flags |-> FALSE], snapshot |-> snapshot,
            changedToOn |-> <<>>]
      [] OTHER ->
           LET now == [n \in DOMAIN flags |-> snapshot[n]] IN
           [flags |-> now, snapshot |-> snapshot, changedToOn |-> TurnedOn(flags, now, 1)]

\* a toggle that reports the flag as on whatever it became
togglePackageCoverageReportsOn(pkgName, flags, snapshot) ==
    LET now == [flags EXCEPT ![pkgName] = ~@] IN
    [flags |-> now,
     snapshot |-> IF getCoverageMode(now) = "some" THEN now ELSE snapshot,
     nowOn |-> TRUE]

\* a toggle that saves the flags whatever the mode they are in
togglePackageCoverageAlwaysSaves(pkgName, flags, snapshot) ==
    LET now == [flags EXCEPT ![pkgName] = ~@] IN
    [flags |-> now, snapshot |-> now, nowOn |-> now[pkgName]]

togglePackageCoverage(pkgName, flags, snapshot) ==
    LET now == [flags EXCEPT ![pkgName] = ~@] IN
    [flags |-> now,
     snapshot |-> IF getCoverageMode(now) = "some" THEN now ELSE snapshot,
     nowOn |-> now[pkgName]]

----------------------------------------------------------------------------
(* File watcher (src/watcher.js, src/config.js) *)

IsPrefix(p, q) == Len(p) <= Len(q) /\ SubSeq(q, 1, Len(p)) = p

NoTriggers == [all |-> FALSE, names |-> <<>>, matched |-> FALSE]

\* the triggers of the first mapping one of whose patterns matches
RECURSIVE TriggeredFrom(_, _)
TriggeredFrom(filePath, m) ==
    IF m > Len(watchMappings) THEN NoTriggers
    ELSE IF \E k \in 1..Len(watchMappings[m].paths) : IsPrefix(watchMappings[m].paths[k], filePath)
    THEN [all |-> watchMappings[m].triggers.all, names |-> watchMappings[m].triggers.names,
          matched |-> TRUE]
    ELSE TriggeredFrom(filePath, m + 1)

getTriggeredPackages(filePath) == TriggeredFrom(filePath, 1)

\* the first package whose path holds the file, None when there is none
getAffectedPackage(filePath) ==
    LET holds == { i \in 1..Len(packages) : IsPrefix(packages[i].path, filePath) } IN
    IF holds = {} THEN None
    ELSE packages[CHOOSE i \in holds : \A j \in holds : i <= j].name

\* the trigger of every package
Everyone == "*"

\* the onFileChange callback of runInteractiveMode
onFileChange(S, name, type) ==
    LET T == [S EXCEPT !.triggers = Append(@, IF type = "all" THEN Everyone ELSE name)]
    IN IF type = "all" THEN runAll(T) ELSE runPkg(T, name)

RECURSIVE TriggerEach(_, _)
TriggerEach(S, names) ==
    IF names = <<>> THEN S
    ELSE TriggerEach(IF Head(names) \in Names THEN onFileChange(S, Head(names), "mapped") ELSE S,
                     Tail(names))

\* a debounced body that asks for the containing package first
onDebounceContainmentFirst(S, filePath) ==
    LET pkg == getAffectedPackage(filePath) IN
    IF pkg # None THEN onFileChange(S, pkg, "direct")
    ELSE LET triggeredPkgs == getTriggeredPackages(filePath) IN
         IF triggeredPkgs.matched
         THEN IF triggeredPkgs.all THEN onFileChange(S, None, "all")
              ELSE TriggerEach(S, triggeredPkgs.names)
         ELSE S

\* the debounced body of watcher.on('change')
onDebounce(S, filePath) ==
    LET triggeredPkgs == getTriggeredPackages(filePath) IN
    IF triggeredPkgs.matched
    THEN IF triggeredPkgs.all THEN onFileChange(S, None, "all")
         ELSE TriggerEach(S, triggeredPkgs.names)
    ELSE LET pkg == getAffectedPackage(filePath) IN
         IF pkg # None THEN onFileChange(S, pkg, "direct") ELSE S

NoTimer == [armed |-> FALSE]

\* start() and stop() of the watcher manager; the watch paths are not empty
start(w) == TRUE

\* a stop() that closes the watcher and leaves the debounce timer armed
stopWatcherKeepsTimer(S) == [S EXCEPT !.watcher = FALSE]

\* stop() of the watcher manager
stopWatcher(S) == [S EXCEPT !.watcher = FALSE, !.debounceTimer = NoTimer, !.burst = {}]

----------------------------------------------------------------------------
(* Handlers *)

getSelectedPkg == packages[selectedIndex + 1].name

Outcomes(O) == [Names -> O]

\* what a handler leaves behind
Commit(S, op, pkg, code) ==
    /\ states' = S.states
    /\ procs' = S.procs
    /\ childProcesses' = S.childProcesses
    /\ pendingReruns' = S.pendingReruns
    /\ pendingRunAll' = S.pendingRunAll
    /\ coverageFlags' = S.coverageFlags
    /\ coverageSnapshot' = S.coverageSnapshot
    /\ viewState' = S.view
    /\ dimTimer' = S.dim
    /\ signalled' = S.signalled
    /\ cycles' = S.cycles
    /\ phase' = IF S.fault = "crash" THEN "crashed"
                ELSE IF S.fault = "exit" THEN "exited" ELSE "running"
    /\ packages' = packages
    /\ UNCHANGED batchVars
    /\ lastStep' = [op |-> op, pkg |-> pkg, code |-> code, spawned |-> S.spawned,
                    requested |-> S.requested, completed |-> S.completed,
                    called |-> S.called, key |-> S.key, scrolled |-> S.scrolled,
                    triggers |-> S.triggers, file |-> S.file]

\* "Run all tests initially": packages.map(runPackageTests ... checkPendingRunAll)
InitialRun(E) ==
    /\ phase = "setup"
    /\ \E o \in Outcomes(E.spawn), t \in E.term :
          Commit(runAllFrom([Store(o, t) EXCEPT !.initial = TRUE], 1), "initial", None, NullNum)
    /\ initialPromises' = Names
    /\ UNCHANGED <<selectedIndex, watchVars>>

\* a cleanup that leaves the watcher and its timer
cleanupLeavesWatcher(S) ==
    LET killed == [S EXCEPT !.signalled = @ \cup S.childProcesses, !.childProcesses = {}]
    IN [stopDim(killed) EXCEPT !.fault = "exit"]

\* cleanup, followed by process.exit(0)
cleanup(S) ==
    LET killed == [S EXCEPT !.signalled = @ \cup S.childProcesses, !.childProcesses = {}]
    IN [stopWatcher(stopDim(killed)) EXCEPT !.fault = "exit"]

enterDetailScreen(S) ==
    LET R == [S EXCEPT !.view = resetCoverageState(resetTestsState(@))]
        selectable == getSelectableIndices(
                          buildTestRows(R.states[SelectedName(R)].testResults))
    IN [R EXCEPT !.view.tests.selectedIndex =
                     IF Len(selectable) > 0 THEN selectable[1] ELSE 0]

navigateForward(S) ==
    IF S.view.currentScreen = "summary"
    THEN render(enterDetailScreen([S EXCEPT !.view.currentScreen = "tests"]))
    ELSE IF S.view.currentScreen = "tests"
    THEN LET selectable == getSelectableFileIndices(buildCoverageRows(S.term.lcov))
             R == [S EXCEPT !.view.currentScreen = "coverage"]
         IN render(IF Len(selectable) > 0
                      /\ ~includes(selectable, S.view.coverage.selectedIndex)
                   THEN [R EXCEPT !.view.coverage.selectedIndex = selectable[1]]
                   ELSE R)
    ELSE S

\* a way back that leaves the coverage screen for the summary
navigateBackToSummary(S) ==
    IF S.view.currentScreen \in {"coverage", "tests"}
    THEN render([S EXCEPT !.view.tests.popoverVisible = FALSE,
                          !.view.tests.popoverScrollOffset =
                              IF S.view.tests.popoverVisible THEN 0 ELSE @,
                          !.view.currentScreen = "summary"])
    ELSE S

\* a way back that leaves the coverage screen for the summary as it is
navigateBackSkipsTests(S) ==
    IF S.view.currentScreen = "coverage"
    THEN render([S EXCEPT !.view.currentScreen = "summary"])
    ELSE IF S.view.currentScreen = "tests"
    THEN render([S EXCEPT !.view.tests.popoverVisible = FALSE,
                          !.view.tests.popoverScrollOffset =
                              IF S.view.tests.popoverVisible THEN 0 ELSE @,
                          !.view.currentScreen = "summary"])
    ELSE S

navigateBack(S) ==
    IF S.view.currentScreen = "coverage"
    THEN render([S EXCEPT !.view.currentScreen = "tests"])
    ELSE IF S.view.currentScreen = "tests"
    THEN render([S EXCEPT !.view.tests.popoverVisible = FALSE,
                          !.view.tests.popoverScrollOffset =
                              IF S.view.tests.popoverVisible THEN 0 ELSE @,
                          !.view.currentScreen = "summary"])
    ELSE S

switchPackage(S, direction) ==
    LET newIdx == S.sel + direction IN
    IF newIdx < 0 \/ newIdx >= Len(packages) THEN S
    ELSE LET R == enterDetailScreen([S EXCEPT !.sel = newIdx])
             covSelectable == getSelectableFileIndices(buildCoverageRows(S.term.lcov))
         IN render([R EXCEPT !.view.coverage.selectedIndex =
                                 IF Len(covSelectable) > 0 THEN covSelectable[1] ELSE 0,
                             !.view.coverage.scrollOffset = 0])

\* the cursor after moveTestsCursor / moveCoverageCursor
moveCursor(selectable, cursor, direction) ==
    LET currentPos == indexOf(selectable, cursor)
        newPos == currentPos + direction
    IN IF Len(selectable) = 0 THEN cursor
       ELSE IF currentPos = 0 - 1
       THEN (IF direction > 0 THEN selectable[1] ELSE selectable[Len(selectable)])
       ELSE IF newPos >= 0 /\ newPos < Len(selectable) THEN selectable[newPos + 1]
       ELSE cursor

moveTestsCursor(S, direction) ==
    [S EXCEPT !.view.tests.selectedIndex =
        moveCursor(getSelectableIndices(buildTestRows(S.states[SelectedName(S)].testResults)),
                   @, direction)]

moveCoverageCursor(S, direction) ==
    [S EXCEPT !.view.coverage.selectedIndex =
        moveCursor(getSelectableFileIndices(buildCoverageRows(S.term.lcov)), @, direction)]

LastThree(seq) == IF Len(seq) > 3 THEN SubSeq(seq, Len(seq) - 2, Len(seq)) ELSE seq

handleAction(S, action) ==
    CASE action = "rerun" -> runPkg(S, SelectedName(S))
      [] action = "rerun-all" -> runAll(S)
      [] action = "coverage" ->
           LET name == SelectedName(S)
               t == togglePackageCoverage(name, S.coverageFlags, S.coverageSnapshot)
               T == [S EXCEPT !.coverageFlags = t.flags, !.coverageSnapshot = t.snapshot,
                              !.cycles = <<>>]
           IN IF t.nowOn THEN runPkg(T, name) ELSE render(T)
      [] action = "coverage-all" ->
           LET c == cycleCoverage(S.coverageFlags, S.coverageSnapshot)
               T == [S EXCEPT !.coverageFlags = c.flags, !.coverageSnapshot = c.snapshot,
                              !.cycles = IF "cycles" \in S.history THEN LastThree(Append(@, S.coverageFlags))
                                         ELSE @]
           IN IF Len(c.changedToOn) > 0 THEN rerunPackages(T, c.changedToOn) ELSE render(T)
      [] action = "watch" ->
           IF ~S.watchEnabled
           THEN render([S EXCEPT !.watchEnabled = TRUE, !.watcher = start(@)])
           ELSE render(stopWatcher([S EXCEPT !.watchEnabled = FALSE]))
      [] action = "help" -> render([S EXCEPT !.view.helpVisible = TRUE])
      [] OTHER -> cleanup(S)

\* a popover branch whose way back leaves the popover as it is
onPopoverKeyBackKeepsPopover(S, evt) ==
    CASE evt.type = "escape" ->
           render([S EXCEPT !.view.tests.popoverVisible = FALSE,
                            !.view.tests.popoverScrollOffset = 0])
      [] evt.type = "enter" -> S
      [] evt.type = "vertical" ->
           render([S EXCEPT !.view.tests.popoverScrollOffset = Max(0, @ + evt.direction)])
      [] evt.type = "vertical-page" -> switchPackage(S, evt.direction)
      [] evt.type = "horizontal" ->
           IF evt.direction = 0 - 1
           THEN render([S EXCEPT !.view.currentScreen = "summary"])
           ELSE navigateForward(S)
      [] evt.type = "action" -> handleAction(S, evt.action)
      [] OTHER -> S

\* a popover branch whose vertical keys move the cursor of the list
onPopoverKeyMovesCursor(S, evt) ==
    CASE evt.type = "escape" ->
           render([S EXCEPT !.view.tests.popoverVisible = FALSE,
                            !.view.tests.popoverScrollOffset = 0])
      [] evt.type = "enter" -> S
      [] evt.type = "vertical" -> render(moveTestsCursor(S, evt.direction))
      [] evt.type = "vertical-page" -> switchPackage(S, evt.direction)
      [] evt.type = "horizontal" ->
           IF evt.direction = 0 - 1
           THEN navigateBack([S EXCEPT !.view.tests.popoverVisible = FALSE,
                                       !.view.tests.popoverScrollOffset = 0])
           ELSE navigateForward(S)
      [] evt.type = "action" -> handleAction(S, evt.action)
      [] OTHER -> S

\* the branch of handleKeypress taken while the popover of the tests screen is open
onPopoverKey(S, evt) ==
    CASE evt.type = "escape" ->
           render([S EXCEPT !.view.tests.popoverVisible = FALSE,
                            !.view.tests.popoverScrollOffset = 0])
      [] evt.type = "enter" -> S
      [] evt.type = "vertical" ->
           render([S EXCEPT !.view.tests.popoverScrollOffset = Max(0, @ + evt.direction)])
      [] evt.type = "vertical-page" -> switchPackage(S, evt.direction)
      [] evt.type = "horizontal" ->
           IF evt.direction = 0 - 1
           THEN navigateBack([S EXCEPT !.view.tests.popoverVisible = FALSE,
                                       !.view.tests.popoverScrollOffset = 0])
           ELSE navigateForward(S)
      [] evt.type = "action" -> handleAction(S, evt.action)
      [] OTHER -> S

\* the branch of handleKeypress taken with neither help nor popover open
onNormalKey(S, evt) ==
    CASE evt.type = "horizontal" ->
           IF evt.direction = 1 THEN navigateForward(S) ELSE navigateBack(S)
      [] evt.type = "vertical" ->
           (CASE S.view.currentScreen = "summary" ->
                   render([S EXCEPT !.sel = Max(0, Min(Len(packages) - 1, @ + evt.direction))])
              [] S.view.currentScreen = "tests" -> render(moveTestsCursor(S, evt.direction))
              [] OTHER -> render(moveCoverageCursor(S, evt.direction)))
      [] evt.type = "vertical-page" ->
           IF S.view.currentScreen = "summary"
           THEN LET half == Len(packages) \div 2
                    halfPage == IF half = 0 THEN 1 ELSE half
                IN render([S EXCEPT !.sel = Max(0, Min(Len(packages) - 1,
                                                       @ + evt.direction * halfPage))])
           ELSE switchPackage(S, evt.direction)
      [] evt.type = "enter" ->
           (CASE S.view.currentScreen = "summary" -> navigateForward(S)
              [] S.view.currentScreen = "tests" ->
                   IF includes(getSelectableIndices(
                                   buildTestRows(S.states[SelectedName(S)].testResults)),
                               S.view.tests.selectedIndex)
                   THEN render([S EXCEPT !.view.tests.popoverVisible = TRUE,
                                         !.view.tests.popoverScrollOffset = 0])
                   ELSE S
              [] OTHER -> S)
      [] evt.type = "action" -> handleAction(S, evt.action)
      [] OTHER -> S

\* an overlay that lets the action keys through
onHelpKeyPassesActions(S, evt) ==
    IF evt.type = "escape" THEN render([S EXCEPT !.view.helpVisible = FALSE])
    ELSE IF evt.type = "action" THEN handleAction(S, evt.action)
    ELSE S

\* the branch of handleKeypress taken while the help overlay is visible
onHelpKey(S, evt) ==
    IF evt.type = "escape" THEN render([S EXCEPT !.view.helpVisible = FALSE])
    ELSE S

handleKeypress(S, evt) ==
    IF evt.type = "ctrl-c" THEN cleanup(S)
    ELSE LET R == resetDim(S) IN
         IF R.view.helpVisible THEN onHelpKey(R, evt)
         ELSE IF R.view.currentScreen = "tests" /\ R.view.tests.popoverVisible
         THEN onPopoverKey(R, evt)
         ELSE onNormalKey(R, evt)

\* the events classifyKey returns
Key(type) == [type |-> type, direction |-> 0, action |-> None]
Arrow(type, direction) == [type |-> type, direction |-> direction, action |-> None]
ActionKey(action) == [type |-> "action", direction |-> 0, action |-> action]

\* the name of a step made by a key
OpOf(evt) == IF evt.type = "action" THEN evt.action ELSE evt.type

\* process.stdin.on('keypress', handleKeypress) with a key that classifyKey recognises
Keypress(E, evt) ==
    /\ phase = "running"
    /\ \E o \in Outcomes(E.spawn), t \in E.term :
          LET found == IF "keys" \in E.history
                       THEN [evt |-> evt, sel |-> selectedIndex,
                             help |-> viewState.helpVisible,
                             dimmed |-> viewState.cursorDimmed,
                             popover |-> viewState.tests.popoverVisible,
                             offset |-> viewState.tests.popoverScrollOffset,
                             files |-> t.lcov.files]
                       ELSE NoKey
              \* history, where the environment records it: the changed file
              \* the debounce timer is waiting for
              waiting == IF "burst" \in E.history /\ debounceTimer.armed
                         THEN debounceTimer.file
                         ELSE NoFile
          IN
          \E S \in {handleKeypress([Store(o, t) EXCEPT !.history = E.history,
                                                       !.key = found,
                                                       !.file = waiting], evt)} :
          /\ S.view.tests.popoverScrollOffset <= MaxPopoverScroll
          /\ Commit(S, OpOf(evt),
                    IF evt.action \in {"rerun", "coverage"} THEN getSelectedPkg ELSE None,
                    NullNum)
          /\ selectedIndex' = S.sel
          /\ watchEnabled' = S.watchEnabled
          /\ watcher' = S.watcher
          /\ debounceTimer' = S.debounceTimer
          /\ burst' = S.burst
    /\ UNCHANGED initialPromises

\* r
KeyRerun(E) == Keypress(E, ActionKey("rerun"))

\* R
KeyRerunAll(E) == Keypress(E, ActionKey("rerun-all"))

\* c
KeyCoverage(E) == Keypress(E, ActionKey("coverage"))

\* C
KeyCoverageAll(E) == Keypress(E, ActionKey("coverage-all"))

\* w
KeyWatch(E) == Keypress(E, ActionKey("watch"))

\* ?
KeyHelp(E) == Keypress(E, ActionKey("help"))

\* q
KeyQuit(E) == Keypress(E, ActionKey("quit"))

KeyCtrlC(E) == Keypress(E, Key("ctrl-c"))

KeyEscape(E) == Keypress(E, Key("escape"))

KeyEnter(E) == Keypress(E, Key("enter"))

\* up / down
KeyVertical(E, direction) == Keypress(E, Arrow("vertical", direction))

\* page up / page down
KeyVerticalPage(E, direction) == Keypress(E, Arrow("vertical-page", direction))

\* left / right
KeyHorizontal(E, direction) == Keypress(E, Arrow("horizontal", direction))

\* the idle timeout of the cursor-dim timer fires
DimTimeout(E) ==
    /\ phase = "running"
    /\ dimTimer.pending > 0
    /\ \E t \in E.term :
          LET S == Store([n \in Names |-> "ok"], t)
              D == [S EXCEPT !.view.cursorDimmed = TRUE,
                             !.dim.pending = @ - 1,
                             !.dim.live = IF S.dim.live THEN FALSE ELSE @]
          IN Commit(render(D), "dim", None, NullNum)
    /\ UNCHANGED <<selectedIndex, initialPromises, watchVars>>

\* a tick of the spinner interval: the screen is drawn again while tests run
SpinnerTick(E) ==
    /\ phase = "running"
    /\ \E t \in E.term :
          LET S == Store([n \in Names |-> "ok"], t)
              draws == IF S.view.helpVisible THEN FALSE
                       ELSE IF S.view.currentScreen = "summary" THEN AnyRunning(S)
                       ELSE S.states[SelectedName(S)].status = "running"
          IN Commit(IF draws THEN render(S) ELSE S, "spinner", None, NullNum)
    /\ UNCHANGED <<selectedIndex, initialPromises, watchVars>>

\* watcher.on('change'): restart the debounce timer
FileChange(E) ==
    /\ phase = "running"
    /\ watcher
    /\ \E filePath \in E.files :
          /\ debounceTimer' = [armed |-> TRUE, file |-> filePath]
          \* history, where the environment records it: the files changed
          \* since the timer was last idle
          /\ burst' = IF "burst" \in E.history THEN burst \cup {filePath} ELSE burst
    /\ lastStep' = [NoStep EXCEPT !.op = "file-change"]
    /\ UNCHANGED <<packages, states, procs, childProcesses, pendingReruns, pendingRunAll,
                   coverageFlags, coverageSnapshot, selectedIndex, initialPromises,
                   watchEnabled, watcher, viewState, dimTimer, signalled, cycles, phase,
                   batchVars>>

\* the debounce timeout fires
Debounce(E) ==
    /\ phase = "running"
    /\ debounceTimer.armed
    /\ \E o \in Outcomes(E.spawn), t \in E.term :
          \* history, where the environment records it: the file looked up
          Commit(onDebounce([Store(o, t) EXCEPT !.file = IF "burst" \in E.history
                                                         THEN debounceTimer.file
                                                         ELSE NoFile],
                            debounceTimer.file), "debounce", None, NullNum)
    /\ debounceTimer' = NoTimer
    /\ burst' = {}
    /\ UNCHANGED <<selectedIndex, initialPromises, watchEnabled, watcher>>

countDots(runner, chunk) ==
    IF runner = "vitest" THEN countVitestDots(chunk) ELSE countBunDots(chunk)

\* a data handler that adds the counts to one RunState shared by all packages
onStdoutSharedState(S, name, i, chunk) ==
    LET counts == countDots(packages[PkgOf(name)].runner, chunk) IN
    onUpdate([S EXCEPT !.procs[name][i].output = @ \o chunk,
                       !.states = [n \in Names |->
                                     [@[n] EXCEPT !.passed = @ + counts.passed,
                                                  !.skipped = @ + counts.skipped,
                                                  !.failed = @ + counts.failed]]],
             "streaming")

\* child.stdout.on('data') of child i of package `name`
onStdout(S, name, i, chunk) ==
    LET counts == countDots(packages[PkgOf(name)].runner, chunk) IN
    onUpdate([S EXCEPT !.procs[name][i].output = @ \o chunk,
                       !.states[name].passed = @ + counts.passed,
                       !.states[name].skipped = @ + counts.skipped,
                       !.states[name].failed = @ + counts.failed], "streaming")

\* a stderr handler that keeps the text in the RunState
onStderrIntoState(S, name, i, chunk) ==
    [S EXCEPT !.procs[name][i].output = @ \o chunk, !.states[name].output = @ \o chunk]

\* child.stderr.on('data')
onStderr(S, name, i, chunk) == [S EXCEPT !.procs[name][i].output = @ \o chunk]

Emitted(child) == Len(child.output)

StdoutData(E) ==
    /\ phase = "running"
    /\ \E name \in Names : \E i \in 1..Len(procs[name]) :
          /\ Emitted(procs[name][i]) < E.maxChunks
          /\ \E chunk \in E.chunks[packages[PkgOf(name)].runner], t \in E.term :
                Commit(onStdout(Store([n \in Names |-> "ok"], t), name, i, chunk),
                       "stdout", name, NullNum)
    /\ UNCHANGED <<selectedIndex, initialPromises, watchVars>>

StderrData(E) ==
    /\ phase = "running"
    /\ \E name \in Names : \E i \in 1..Len(procs[name]) :
          /\ Emitted(procs[name][i]) < E.maxChunks
          /\ \E chunk \in E.chunks[packages[PkgOf(name)].runner], t \in E.term :
                Commit(onStderr(Store([n \in Names |-> "ok"], t), name, i, chunk),
                       "stderr", name, NullNum)
    /\ UNCHANGED <<selectedIndex, initialPromises, watchVars>>

Remove(seq, i) == SubSeq(seq, 1, i - 1) \o SubSeq(seq, i + 1, Len(seq))

parseFinal(runner, output) ==
    IF runner = "vitest" THEN parseVitestFinal(output) ELSE parseBunFinal(output)

\* a close handler that keeps the streamed counts
onCloseKeepsStreamed(S, name, i, code, junit, summary, lcov) ==
    LET child == S.procs[name][i]
        final == parseFinal(packages[PkgOf(name)].runner, child.output)
        D == [S EXCEPT !.procs[name] = Remove(@, i),
                       !.states[name].status = "done",
                       !.states[name].exitCode = code,
                       !.states[name].files = final.files,
                       !.states[name].tests = final.tests,
                       !.states[name].duration = final.duration,
                       !.states[name].output = child.output,
                       !.states[name].testResults = parseJunitFile(junit),
                       !.states[name].coverage =
                           IF child.coverageEnabled THEN getPackageCoverage(summary, lcov)
                           ELSE @,
                       !.childProcesses = @ \ {name}]
        U == onUpdate(D, "completed")
    IN Complete([U EXCEPT !.completed = U.states[name]], name, child.onComplete)

\* child.on('close') of child i of package `name`
onClose(S, name, i, code, junit, summary, lcov) ==
    LET child == S.procs[name][i]
        final == parseFinal(packages[PkgOf(name)].runner, child.output)
        cov == IF child.coverageEnabled THEN getPackageCoverage(summary, lcov) ELSE None
        E == [S EXCEPT !.procs[name] = Remove(@, i),
                       !.states[name].status = "done",
                       !.states[name].exitCode = code,
                       !.states[name].files = final.files,
                       !.states[name].tests = final.tests,
                       !.states[name].passed = final.passed,
                       !.states[name].skipped = final.skipped,
                       !.states[name].failed = final.failed,
                       !.states[name].duration = final.duration,
                       !.states[name].output = child.output,
                       !.states[name].testResults = parseJunitFile(junit)]
    IN IF cov = "throws" THEN [E EXCEPT !.fault = "crash"]
       ELSE LET D == [E EXCEPT !.states[name].coverage =
                                   IF child.coverageEnabled THEN cov ELSE @,
                               !.childProcesses = @ \ {name}]
                U == onUpdate(D, "completed")
            IN Complete([U EXCEPT !.completed = U.states[name]], name, child.onComplete)

Close(E) ==
    /\ phase = "running"
    /\ \E name \in Names : \E i \in 1..Len(procs[name]) :
       \E code \in E.codes, junit \in E.junit, summary \in E.summary, lcov \in E.lcov :
       \E o \in Outcomes(E.spawn), t \in E.term :
       \E C \in {onClose(Store(o, t), name, i, code, junit, summary, lcov)} :
          \* resolve(): the promise of this child is settled
          \E left \in {IF C.fault = "none" /\ procs[name][i].initial
                        THEN initialPromises \ {name} ELSE initialPromises} :
          \E awaited \in {initialPromises # {} /\ left = {}} :
             \* after "await Promise.all(initialPromises)"
             /\ Commit(IF awaited THEN render(C) ELSE C, "close", name, code)
             /\ initialPromises' = left
             /\ watcher' = IF awaited /\ watchEnabled THEN start(watcher) ELSE watcher
    /\ UNCHANGED <<selectedIndex, watchEnabled, debounceTimer, burst>>

----------------------------------------------------------------------------
(* Coverage record and line statuses (src/src/coverage.js) *)

interactiveVars ==
    <<packages, states, procs, childProcesses, pendingReruns, pendingRunAll,
      coverageFlags, coverageSnapshot, selectedIndex, initialPromises,
      watchEnabled, watcher, debounceTimer, viewState, dimTimer, signalled,
      burst, cycles, phase, lastStep>>

\* the coverage run writes a further DA or BRDA line of the record
LcovLine ==
    /\ Len(lcovRecord.content) < MaxLcovLines
    /\ \E line \in LcovLines :
          lcovRecord' = [NoRecord EXCEPT !.content = Append(lcovRecord.content, line)]
    /\ UNCHANGED <<interactiveVars, cli>>

\* parseLcovDetailed reads the record; the status of each source line
LineStatus ==
    /\ ~lcovRecord.read
    /\ LET file == parseRecord(lcovRecord.content, 1, [lineHits |-> NewMap, branchHits |-> NewMap])
       IN lcovRecord' =
             [lcovRecord EXCEPT !.read = TRUE,
                                !.status = [l \in SourceLines |->
                                    getLineCoverageStatus(l, file.lineHits, file.branchHits)]]
    /\ UNCHANGED <<interactiveVars, cli>>

----------------------------------------------------------------------------
(* Entry point and one-shot run (cli.js main, runTTY and runCI of ui.js) *)

\* const isInteractiveTTY = process.stdout.isTTY && !isCI
isInteractiveTTY == cli.isTTY /\ ~cli.isCI

\* packages.filter((p) => p.testScript !== null && p.runner !== null)
testablePackages == { n \in Names : packages[PkgOf(n)].runner # None }

\* an exit status that does not depend on isCI
exitStatusOfRun(isCI, exitCode) == exitCode

\* process.exit(isCI ? exitCode : 0)
exitStatus(isCI, exitCode) == IF isCI THEN exitCode ELSE 0

\* totals.failed of runTTY and runCI: the sum of "s.failed || 0"
RECURSIVE totalsFailed(_, _)
totalsFailed(failed, i) ==
    IF i > Len(packages) THEN 0
    ELSE (IF packages[i].name \in DOMAIN failed THEN failed[packages[i].name] ELSE 0)
         + totalsFailed(failed, i + 1)

\* main(): loadConfig and validateConfig exit with 1 on a bad configuration;
\* runInteractiveMode exits with 1 when stdin has no raw mode
Main ==
    /\ cli.at = "none"
    /\ phase = "setup"
    /\ \E isCI \in BOOLEAN, isTTY \in BOOLEAN, interactive \in BOOLEAN,
          config \in {"ok", "invalid"}, rawMode \in BOOLEAN :
          LET flags == [NotStarted EXCEPT !.isCI = isCI, !.isTTY = isTTY] IN
          cli' = IF config = "invalid"
                 THEN [flags EXCEPT !.at = "exit", !.code = 1, !.why = "config"]
                 ELSE IF interactive
                 THEN (IF rawMode THEN [flags EXCEPT !.at = "interactive"]
                       ELSE [flags EXCEPT !.at = "exit", !.code = 1, !.why = "raw-mode"])
                 ELSE IF testablePackages = {}
                 THEN [flags EXCEPT !.at = "exit", !.code = 0, !.why = "no-tests"]
                 ELSE [flags EXCEPT !.at = "run",
                                    !.failed = [n \in testablePackages |-> NullNum]]
    /\ UNCHANGED <<interactiveVars, lcovRecord>>

\* child.on('close') of runTestsWithStreaming: state.failed = final.failed.
\* runCI awaits the packages one after the other, runTTY all at once.
OneShotClose(E) ==
    /\ cli.at = "run"
    /\ \E n \in DOMAIN cli.failed :
          /\ cli.failed[n] = NullNum
          /\ isInteractiveTTY
             \/ \A i \in 1..(PkgOf(n) - 1) :
                   packages[i].name \in DOMAIN cli.failed => cli.failed[packages[i].name] # NullNum
          /\ \E output \in E.chunks[packages[PkgOf(n)].runner] :
                cli' = [cli EXCEPT !.failed[n] =
                           parseFinal(packages[PkgOf(n)].runner, output).failed]
    /\ UNCHANGED <<interactiveVars, lcovRecord>>

\* after the last package: "return totals.failed > 0 ? 1 : 0" and the
\* process.exit of main
OneShotDone ==
    /\ cli.at = "run"
    /\ \A n \in DOMAIN cli.failed : cli.failed[n] # NullNum
    /\ cli' = [cli EXCEPT !.at = "exit", !.why = "done",
                          !.code = exitStatus(cli.isCI,
                                              IF totalsFailed(cli.failed, 1) > 0 THEN 1 ELSE 0)]
    /\ UNCHANGED <<interactiveVars, lcovRecord>>

\* process.on('SIGINT', () => { cleanup(); process.exit(1); }) of runTTY
OneShotSigint ==
    /\ cli.at = "run"
    /\ isInteractiveTTY
    /\ cli' = [cli EXCEPT !.at = "exit", !.why = "sigint", !.code = 1]
    /\ UNCHANGED <<interactiveVars, lcovRecord>>

\* the code the process has exited with, NullNum while it runs; the quit
\* key and ctrl-c of the interactive mode call process.exit(0)
ExitCode ==
    IF cli.at = "exit" THEN cli.code
    ELSE IF phase = "exited" THEN 0
    ELSE NullNum

----------------------------------------------------------------------------
(* Specifications *)

\* runInteractiveMode up to the initial run
InitWith(pkgs) ==
    /\ packages = pkgs
    /\ states = [n \in Names |-> createInitialState]
    /\ procs = [n \in Names |-> <<>>]
    /\ childProcesses = {}
    /\ pendingReruns = {}
    /\ pendingRunAll = FALSE
    /\ \E initialCoverageEnabled \in BOOLEAN :
          /\ coverageFlags = createCoverageFlags(initialCoverageEnabled)
          /\ coverageSnapshot = createCoverageFlags(initialCoverageEnabled)
    /\ selectedIndex = 0
    /\ initialPromises = {}
    /\ watchEnabled \in BOOLEAN
    /\ watcher = FALSE
    /\ debounceTimer = NoTimer
    /\ burst = {}
    /\ cycles = <<>>
    /\ viewState = createViewState
    \* "dimTimer.reset()" of the setup has armed the idle timer
    /\ dimTimer = [handle |-> TRUE, live |-> TRUE, pending |-> 1]
    /\ signalled = {}
    /\ phase = "setup"
    /\ lcovRecord = NoRecord
    /\ cli = NotStarted
    /\ lastStep = NoStep

Init == InitWith(TwoRunners)

\* The environment of a specification: what spawn, the children and the
\* file system may answer.
Runners == {"vitest", "bun", None}

\* every spawn succeeds, children say little, every report is readable
Quiet ==
    [spawn |-> SpawnOk, codes |-> {0}, junit |-> {"ok"}, summary |-> {"missing"},
     lcov |-> {"ok"}, chunks |-> [r \in Runners |-> OneChunk(r)], maxChunks |-> 1,
     term |-> {Terminal(24, 0, 1)}, history |-> {},
     files |-> Files]

\* the runs of the packages: start, rerun, run-all, coverage toggle, exit
Runs(E) ==
    \/ InitialRun(E)
    \/ KeyRerun(E)
    \/ KeyRerunAll(E)
    \/ KeyCoverage(E)
    \/ Close(E)

\* the scheduler: keys, watcher, process exits
Schedule(E) ==
    \/ Runs(E)
    \/ KeyCoverageAll(E)
    \/ \E d \in {-1, 1} : KeyVertical(E, d)
    \/ KeyWatch(E)
    \/ FileChange(E)
    \/ Debounce(E)

\* the output streams of the children
Stream(E) ==
    \/ StdoutData(E)
    \/ StderrData(E)

Next == Schedule(Quiet)

Spec == Init /\ [][Next]_vars

\* one package, talkative children, reports present or absent
OnlyVitest == << [name |-> "a", runner |-> "vitest", path |-> <<"pkgs", "a">>] >>
OnlyBun == << [name |-> "b", runner |-> "bun", path |-> <<"pkgs", "b">>] >>

Talkative ==
    [Quiet EXCEPT !.codes = ExitCodes, !.junit = {"missing", "ok"},
                  !.summary = {"missing", "ok"}, !.lcov = {"missing", "ok"},
                  !.chunks = [r \in Runners |-> AllChunks(r)], !.maxChunks = MaxChunks]

InitData == InitWith(OnlyVitest) \/ InitWith(OnlyBun)

NextData == Runs(Talkative) \/ Stream(Talkative)

SpecData == InitData /\ [][NextData]_vars

\* spawn may fail
SpawnFails == [Quiet EXCEPT !.spawn = SpawnAny]

NextSpawnFails == Runs(SpawnFails)

SpecSpawnFails == Init /\ [][NextSpawnFails]_vars

\* the reports may be missing, malformed or unreadable
BadReports == [Quiet EXCEPT !.junit = JunitFiles, !.summary = SummaryFiles, !.lcov = LcovAny]

NextBadReports == Runs(BadReports)

SpecBadReports == Init /\ [][NextBadReports]_vars

\* a package without a recognised runner is in the list
InitUnrunnable == InitWith(WithUnrunnable)

SpecUnrunnable == InitUnrunnable /\ [][Next]_vars

\* the coverage keys, with the history of the cycles recorded
Recorded == [Quiet EXCEPT !.history = {"cycles"}]

NextCoverage ==
    \/ Runs(Recorded)
    \/ KeyCoverageAll(Recorded)
    \/ \E d \in {-1, 1} : KeyVertical(Recorded, d)

SpecCoverage == Init /\ [][NextCoverage]_vars

\* a terminal of 24 rows, an lcov file of two source files
Viewed == [Quiet EXCEPT !.term = {Terminal(24, 2, 1)}, !.history = {"keys"}]

\* the navigation keys of the three screens and the popover
Navigation(E) ==
    \/ KeyEnter(E)
    \/ KeyEscape(E)
    \/ \E d \in {-1, 1} : KeyVertical(E, d)
    \/ \E d \in {-1, 1} : KeyVerticalPage(E, d)
    \/ \E d \in {-1, 1} : KeyHorizontal(E, d)

NextNavigation ==
    \/ InitialRun(Viewed)
    \/ KeyRerun(Viewed)
    \/ Close(Viewed)
    \/ Navigation(Viewed)

SpecNavigation == Init /\ [][NextNavigation]_vars

\* one package on terminals of 6 and 8 rows that may be resized between two
\* renders, an lcov file that may be rewritten with fewer source files
Resized ==
    [Quiet EXCEPT !.term = {Terminal(6, 4, 1), Terminal(8, 4, 1), Terminal(8, 1, 1)}]

NextScroll ==
    \/ InitialRun(Resized)
    \/ Close(Resized)
    \/ Navigation(Resized)
    \/ SpinnerTick(Resized)

SpecScroll == InitWith(OnlyVitest) /\ [][NextScroll]_vars

\* the keys that open the screens, the popover and the overlay, start a run
\* and switch the watcher
Opening(E) ==
    \/ KeyEnter(E)
    \/ KeyEscape(E)
    \/ \E d \in {-1, 1} : KeyHorizontal(E, d)
    \/ KeyHelp(E)
    \/ KeyRerun(E)
    \/ KeyWatch(E)

\* the other keys that classifyKey recognises
Others(E) ==
    \/ \E d \in {-1, 1} : KeyVertical(E, d)
    \/ \E d \in {-1, 1} : KeyVerticalPage(E, d)
    \/ KeyRerunAll(E)
    \/ KeyCoverage(E)
    \/ KeyCoverageAll(E)
    \/ KeyQuit(E)
    \/ KeyCtrlC(E)

\* every key under the help overlay; outside it the keys of Opening
NextHelp ==
    \/ InitialRun(Viewed)
    \/ Close(Viewed)
    \/ Opening(Viewed)
    \/ viewState.helpVisible /\ Others(Viewed)

SpecHelp == Init /\ [][NextHelp]_vars

\* the same keys, and the idle timeout of the cursor
NextDim ==
    \/ NextHelp
    \/ DimTimeout(Viewed)

SpecDim == Init /\ [][NextDim]_vars

\* runs, watcher and idle timer, and the two ways to quit
NextQuit ==
    \/ InitialRun(Quiet)
    \/ KeyRerun(Quiet)
    \/ Close(Quiet)
    \/ KeyWatch(Quiet)
    \/ FileChange(Quiet)
    \/ Debounce(Quiet)
    \/ DimTimeout(Quiet)
    \/ KeyQuit(Quiet)
    \/ KeyCtrlC(Quiet)

SpecQuit == Init /\ [][NextQuit]_vars

\* the watcher with the files of each burst recorded, and a file of package b
Watched ==
    [Quiet EXCEPT !.history = {"burst"},
                  !.files = Files \cup { <<"pkgs", "b", "src", "w">>, <<"docs", "r">> }]

NextWatch ==
    \/ InitialRun(Watched)
    \/ Close(Watched)
    \/ KeyWatch(Watched)
    \/ FileChange(Watched)
    \/ Debounce(Watched)

SpecWatch == Init /\ [][NextWatch]_vars

\* an lcov record is written and read
NextLcov ==
    \/ LcovLine
    \/ LineStatus

SpecLcov == Init /\ [][NextLcov]_vars

\* children that print a final summary, with failures or without
Failing == [Quiet EXCEPT !.chunks = [r \in Runners |-> AllChunks(r)]]

\* main(), the one-shot run, and the interactive mode up to the quit key
NextCli ==
    \/ Main
    \/ OneShotClose(Failing)
    \/ OneShotDone
    \/ OneShotSigint
    \/ /\ cli.at = "interactive"
       /\ \/ InitialRun(Failing)
          \/ StdoutData(Failing)
          \/ Close(Failing)
          \/ KeyQuit(Failing)

SpecCli == Init /\ [][NextCli]_vars

\* two packages whose children print and exit while reruns and run-all
\* requests arrive
NextPackages ==
    \/ InitialRun(Failing)
    \/ KeyRerun(Failing)
    \/ KeyRerunAll(Failing)
    \/ \E d \in {-1, 1} : KeyVertical(Failing, d)
    \/ StdoutData(Failing)
    \/ Close(Failing)

SpecPackages == Init /\ [][NextPackages]_vars

\* rerun and run-all requests on one package
NextRerun ==
    \/ InitialRun(Quiet)
    \/ KeyRerun(Quiet)
    \/ KeyCoverage(Quiet)
    \/ KeyRerunAll(Quiet)
    \/ Close(Quiet)

\* every started process eventually exits (the package has at most one)
SpecRerun ==
    /\ InitWith(OnlyVitest) /\ [][NextRerun]_vars
    /\ WF_vars(Close(Quiet))

\* one package whose lcov file may be absent or list two source files when a
\* key handler reads it
Rewritten ==
    [Quiet EXCEPT !.term = {Terminal(24, 0, 1), Terminal(24, 2, 1)}, !.history = {"keys"}]

NextCursor ==
    \/ InitialRun(Rewritten)
    \/ Close(Rewritten)
    \/ \E d \in {-1, 1} : KeyVertical(Rewritten, d)
    \/ \E d \in {-1, 1} : KeyHorizontal(Rewritten, d)

SpecCursor == InitWith(OnlyVitest) /\ [][NextCursor]_vars

\* a terminal of 24 rows and an lcov file of two source files, no history
Shown == [Quiet EXCEPT !.term = Viewed.term]

\* one package: its runs and streams, the keys of the views, the coverage
\* keys and the two timers
NextRunStates ==
    \/ InitialRun(Shown)
    \/ KeyRerun(Shown)
    \/ Close(Shown)
    \/ Stream(Shown)
    \/ KeyEnter(Shown)
    \/ KeyEscape(Shown)
    \/ \E d \in {-1, 1} : KeyVertical(Shown, d)
    \/ \E d \in {-1, 1} : KeyHorizontal(Shown, d)
    \/ KeyHelp(Shown)
    \/ KeyCoverage(Shown)
    \/ KeyCoverageAll(Shown)
    \/ DimTimeout(Shown)
    \/ SpinnerTick(Shown)

SpecRunStates == InitWith(OnlyVitest) /\ [][NextRunStates]_vars

----------------------------------------------------------------------------
(* Claims *)

Range(seq) == { seq[i] : i \in 1..Len(seq) }

Occurrences(seq, x) == Cardinality({ i \in 1..Len(seq) : seq[i] = x })

Running(n) == states[n].status = "running"

AllPackages == [i \in 1..Len(packages) |-> packages[i].name]

\* C1: in every reachable state each package has at most one live child process
AtMostOneLiveProcess == \A n \in Names : Len(procs[n]) <= 1

\* a rerun of a running package is queued while another package is idle
QueuedBehindLiveProcess ==
    \E n \in Names, m \in Names :
        /\ Len(procs[n]) = 1 /\ n \in pendingReruns /\ lastStep.op = "debounce"
        /\ states[m].status = "done"

\* C2 as claimed: a package that is queued for rerun when its completion
\* callback fires is started exactly once in that step
QueuedRerunStartsAtCompletion ==
    [][\A n \in Names :
          (lastStep'.op = "close" /\ lastStep'.pkg = n /\ n \in pendingReruns)
              => Occurrences(lastStep'.spawned, n) = 1]_vars

\* C2 amended: a run request for a Running package starts nothing and queues the
\* name; the name stays queued, and no run of the package starts, until the
\* completion callback of the current run fires; when that fires with no
\* run-all pending, exactly one new run of the package starts in that step and
\* the name leaves the queue
QueuedRerunStartsUnlessRunAllPending ==
    [][\A n \in Names :
          /\ (n \in Range(lastStep'.requested) /\ Running(n))
                => /\ n \notin Range(lastStep'.spawned)
                   /\ n \in pendingReruns'
                   /\ procs'[n] = procs[n]
          /\ (n \in pendingReruns /\ Running(n)
                /\ ~(lastStep'.op = "close" /\ lastStep'.pkg = n))
                => /\ n \in pendingReruns'
                   /\ n \notin Range(lastStep'.spawned)
          /\ (lastStep'.op = "close" /\ lastStep'.pkg = n /\ n \in pendingReruns
                /\ ~pendingRunAll)
                => /\ lastStep'.spawned = <<n>>
                   /\ n \notin pendingReruns'
                   /\ Len(procs'[n]) = 1]_vars

\* a queued rerun has just been started by the completion callback
QueuedRerunStarted ==
    /\ lastStep.op = "close"
    /\ lastStep.spawned = <<lastStep.pkg>>
    /\ lastStep.completed.status = "done"
    /\ ~pendingRunAll

\* C3: a run-all requested while a package is Running is deferred, and once
\* every package is idle it has been carried out: pendingRunAll is set only
\* while some package is still Running
PendingRunAllFiresWhenIdle == pendingRunAll => \E n \in Names : Running(n)

\* C4: a completion that fires while pendingRunAll is set never relaunches the
\* package from pendingReruns: it starts nothing and leaves the queue as it is,
\* or it carries out the run-all (one run per package, queue cleared)
RunAllSuppressesQueueDraining ==
    [][\A n \in Names :
          (lastStep'.op = "close" /\ lastStep'.pkg = n /\ pendingRunAll)
              => \/ /\ lastStep'.spawned = <<>>
                    /\ pendingReruns' = pendingReruns
                    /\ pendingRunAll'
                 \/ /\ lastStep'.spawned = AllPackages
                    /\ pendingReruns' = {}
                    /\ ~pendingRunAll'
                    /\ \A m \in Names : states[m].status # "running" \/ m = n]_vars

\* a queued package completed while a run-all was pending and was not relaunched
SuppressedWhileQueued ==
    /\ lastStep.op = "close"
    /\ lastStep.pkg \in pendingReruns
    /\ pendingRunAll
    /\ lastStep.spawned = <<>>
    /\ states[lastStep.pkg].status = "done"

RunnerOf(n) == packages[PkgOf(n)].runner

\* the final-summary parser's result over an output, written out per runner
ExpectedFinal(runner, output) ==
    LET kind == IF runner = "vitest" THEN "vitest" ELSE "bun"
        hits == { i \in 1..Len(output) : output[i].t = kind }
    IN IF hits = {} THEN ZeroResult
       ELSE LET m == output[CHOOSE i \in hits : \A j \in hits : i <= j] IN
            [files |-> m.files, tests |-> m.tests, passed |-> m.passed,
             skipped |-> m.skipped, failed |-> m.failed,
             duration |-> IF m.unit = "ms" THEN m.value ELSE 1000 * m.value]

\* C5: when a process exits, with any exit code, the RunState shown at
\* completion is Done, holds the exit code, and its counts, file count, test
\* count and duration are the final-summary parser's result over the complete
\* captured output, whatever the streamed counts were
ExitOverwritesWithFinalSummary ==
    [][\A n \in Names :
          (lastStep'.op = "close" /\ lastStep'.pkg = n /\ Len(procs[n]) = 1)
              => LET done == lastStep'.completed
                     final == ExpectedFinal(RunnerOf(n), procs[n][1].output)
                 IN /\ done.status = "done"
                    /\ done.exitCode = lastStep'.code
                    /\ done.output = procs[n][1].output
                    /\ done.passed = final.passed
                    /\ done.skipped = final.skipped
                    /\ done.failed = final.failed
                    /\ done.files = final.files
                    /\ done.tests = final.tests
                    /\ done.duration = final.duration]_vars

\* a run ended with a nonzero code and a summary of 2 passed, while its output
\* holds a single pass marker
FinalDiffersFromStream ==
    /\ lastStep.op = "close"
    /\ lastStep.code = 1
    /\ lastStep.completed.passed = 2
    /\ lastStep.completed.failed = 1
    /\ Count(lastStep.completed.output, "mid") = 1

\* C6: every package started in a step (initial run, rerun, queued rerun,
\* run-all) has a reset RunState at the end of that step: Running, counts 0,
\* everything else cleared
RunStartsFromResetState ==
    \A n \in Range(lastStep.spawned) :
        states[n] = [status |-> "running", passed |-> 0, skipped |-> 0, failed |-> 0,
                     files |-> NullNum, tests |-> NullNum, duration |-> NullNum,
                     exitCode |-> NullNum, output |-> <<>>, coverage |-> None,
                     testResults |-> NullReport]

\* a queued rerun started right after a run that ended with counts, a report
\* and coverage
RestartAfterCountedRun ==
    /\ lastStep.op = "close"
    /\ lastStep.spawned = <<lastStep.pkg>>
    /\ lastStep.completed.passed > 0
    /\ lastStep.completed.testResults = Report
    /\ lastStep.completed.coverage = "lcovStats"

\* C7: a failed spawn does not crash the orchestrator and does not leave the
\* package Running without a process
SpawnFailureContained ==
    /\ phase # "crashed"
    /\ \A n \in Names : Running(n) => Len(procs[n]) > 0

\* C8: whatever the reports are, the completion step shows the package Done,
\* untracks the process and fires the completion callback
BadReportNeverAborts ==
    lastStep.op = "close"
        => /\ phase # "crashed"
           /\ lastStep.completed.status = "done"
           /\ lastStep.called
           /\ (lastStep.pkg \in childProcesses => lastStep.pkg \in Range(lastStep.spawned))

\* C9: a package without a recognised runner never has a process and is never Running
UnrunnableNeverScheduled ==
    \A i \in 1..Len(packages) :
        packages[i].runner = None
            => /\ procs[packages[i].name] = <<>>
               /\ states[packages[i].name].status # "running"

\* C10: a step that turns a package's coverage flag on requests a run of it; an
\* idle package is launched in that step with coverage in its command, a
\* Running one is queued
CoverageOnRequestsRun ==
    [][\A n \in Names :
          (~coverageFlags[n] /\ coverageFlags'[n])
              => /\ lastStep'.op \in {"coverage", "coverage-all"}
                 /\ n \in Range(lastStep'.requested)
                 /\ IF Running(n)
                    THEN n \in pendingReruns' /\ n \notin Range(lastStep'.spawned)
                    ELSE /\ Occurrences(lastStep'.spawned, n) = 1
                         /\ Len(procs'[n]) = 1
                         /\ procs'[n][1].coverageEnabled]_vars

\* a coverage-all cycle launched both packages with coverage
CycleLaunchedWithCoverage ==
    /\ lastStep.op = "coverage-all"
    /\ Len(lastStep.spawned) = 2
    /\ \A n \in Names : Len(procs[n]) = 1 /\ procs[n][1].coverageEnabled

\* C11: a coverage key that turns a flag off (the single toggle of a flag that
\* was on, the cycle from all on to all off) starts no process, adds nothing to
\* pendingReruns and does not set pendingRunAll.
TurningCoverageOffRunsNothing ==
    [][(/\ lastStep'.op \in {"coverage", "coverage-all"}
        /\ \E n \in Names : coverageFlags[n] /\ ~coverageFlags'[n])
       => /\ lastStep'.spawned = <<>>
          /\ procs' = procs
          /\ pendingReruns' \subseteq pendingReruns
          /\ pendingRunAll' => pendingRunAll]_vars

\* the flag of an idle package was toggled off
CoverageToggledOffWhileIdle ==
    /\ lastStep.op = "coverage"
    /\ ~coverageFlags[lastStep.pkg]
    /\ states[lastStep.pkg].status = "done"
    /\ lastStep.spawned = <<>>

\* the flags after the i-th of the recorded cycles
AfterCycle(i) == IF i < Len(cycles) THEN cycles[i + 1] ELSE coverageFlags

AllOn == [n \in Names |-> TRUE]
AllOff == [n \in Names |-> FALSE]

\* C12: coverage-all cycles that start from a mixed configuration, with no
\* single toggle in between, yield all on, then all off, then exactly the
\* mixed configuration they started from.
ThreeCyclesRestoreMixed ==
    \A k \in 1..Len(cycles) :
        getCoverageMode(cycles[k]) = "some"
        => /\ AfterCycle(k) = AllOn
           /\ k + 1 <= Len(cycles) => AfterCycle(k + 1) = AllOff
           /\ k + 2 <= Len(cycles) => AfterCycle(k + 2) = cycles[k]

\* three cycles were made from a mixed configuration, which is back
MixedRestoredByThirdCycle ==
    /\ Len(cycles) = 3
    /\ getCoverageMode(cycles[1]) = "some"
    /\ cycles[2] = AllOn
    /\ cycles[3] = AllOff
    /\ coverageFlags = cycles[1]

\* C13: a coverage-all cycle requests a rerun of exactly the packages whose
\* flag it changed from off to on, each once; from all on to all off it
\* requests none.
CycleRerunsExactlyTurnedOn ==
    [][lastStep'.op = "coverage-all"
       => /\ Range(lastStep'.requested) =
                 {n \in Names : ~coverageFlags[n] /\ coverageFlags'[n]}
          /\ Len(lastStep'.requested) = Cardinality(Range(lastStep'.requested))
          /\ getCoverageMode(coverageFlags) = "all" => lastStep'.requested = <<>>]_vars

\* a cycle from a mixed configuration requested the packages that were off,
\* and only those
CycleFromMixedRerunsTheOffOnes ==
    /\ lastStep.op = "coverage-all"
    /\ cycles # <<>>
    /\ getCoverageMode(cycles[Len(cycles)]) = "some"
    /\ Range(lastStep.requested) = {n \in Names : ~cycles[Len(cycles)][n]}
    /\ Range(lastStep.requested) # Names

\* C14: summary.selectedIndex is an index of the package list, whatever keys
\* were pressed; vertical, page and package-switch keys pressed at either end
\* leave it there.
SelectedIndexInRange == selectedIndex \in 0..(Len(packages) - 1)

\* a vertical or page key was pressed towards the end the selection was at
KeyPressedAtTheEnd ==
    /\ lastStep.key.evt.type \in {"vertical", "vertical-page"}
    /\ ~lastStep.key.help
    /\ \/ lastStep.key.sel = 0 /\ lastStep.key.evt.direction = 0 - 1
       \/ lastStep.key.sel = Len(packages) - 1 /\ lastStep.key.evt.direction = 1
    /\ selectedIndex = lastStep.key.sel

\* the edges of the screen graph
ScreenEdges ==
    {<<"summary", "tests">>, <<"tests", "coverage">>, <<"coverage", "tests">>,
     <<"tests", "summary">>}

\* C15: a step that changes the current screen, whether a key or an event of
\* the scheduler, goes from Summary to Tests, from Tests to Coverage, from
\* Coverage to Tests or from Tests to Summary.
ScreenChangesAlongEdges ==
    [][viewState'.currentScreen # viewState.currentScreen
       => <<viewState.currentScreen, viewState'.currentScreen>> \in ScreenEdges]_vars

\* the left key on the coverage screen led back to the tests screen
BackFromCoverageToTests ==
    /\ lastStep.key.evt = Arrow("horizontal", 0 - 1)
    /\ viewState.currentScreen = "tests"

\* C16 as stated: whatever the number of rows, the visible rows and the cursor,
\* after the smart scroll the cursor row is within the window of visible rows
\* and the scroll offset within [0, max(0, totalRows - visibleRows)].
SmartScrollKeepsCursorVisible ==
    lastStep.scrolled # NoScroll
    => LET s == lastStep.scrolled IN
       /\ s.cursorRow \in s.scrollOffset..(s.scrollOffset + s.visibleRows - 1)
       /\ s.scrollOffset \in 0..Max(0, s.totalRows - s.visibleRows)

\* C16, amended: the scroll offset is always within [0, max(0, totalRows -
\* visibleRows)]; the cursor row is within the window when there is at least
\* one visible row and the cursor is on a row of the list.
SmartScrollKeepsListedCursorVisible ==
    lastStep.scrolled # NoScroll
    => LET s == lastStep.scrolled IN
       /\ s.scrollOffset \in 0..Max(0, s.totalRows - s.visibleRows)
       /\ (s.visibleRows >= 1 /\ s.cursorRow \in 0..(s.totalRows - 1))
          => s.cursorRow \in s.scrollOffset..(s.scrollOffset + s.visibleRows - 1)

\* a list longer than the window was scrolled down to the cursor
ScrolledDownToCursor ==
    /\ lastStep.scrolled # NoScroll
    /\ lastStep.scrolled.visibleRows >= 1
    /\ lastStep.scrolled.totalRows > lastStep.scrolled.visibleRows
    /\ lastStep.scrolled.cursorRow \in 0..(lastStep.scrolled.totalRows - 1)
    /\ lastStep.scrolled.scrollOffset > 0

\* what a consumed key leaves alone
Consumed ==
    /\ UNCHANGED <<viewState.currentScreen, selectedIndex, viewState.tests,
                   viewState.coverage, coverageFlags, coverageSnapshot, watchEnabled>>
    /\ UNCHANGED <<procs, pendingReruns, pendingRunAll, states>>
    /\ lastStep'.spawned = <<>>
    /\ lastStep'.requested = <<>>

\* C17: a key pressed while the help overlay is visible, other than escape,
\* changes neither the screen, the selection, the cursors and scroll offsets,
\* the popover, the coverage flags nor the watch state, and starts or queues
\* no run; escape closes the overlay and changes none of these either.
HelpConsumesKeys ==
    [][(lastStep'.key # NoKey /\ lastStep'.key.help)
       => /\ Consumed
          /\ viewState'.helpVisible = (lastStep'.key.evt.type # "escape")
          /\ lastStep'.key.evt.type # "ctrl-c" => UNCHANGED <<watcher, debounceTimer>>]_vars

\* a rerun key was pressed under the overlay, on the tests screen with the
\* popover open
RerunKeyUnderHelp ==
    /\ lastStep.key.help
    /\ lastStep.key.evt = ActionKey("rerun")
    /\ viewState.currentScreen = "tests"
    /\ viewState.tests.popoverVisible
    /\ states[getSelectedPkg].status = "done"

\* C18: at most one idle timer is pending; the cursor is dimmed exactly when
\* the timer set by the last classified keypress (or by the setup) has fired;
\* after a classified keypress the cursor is not dimmed and the timer runs anew.
DimTimerFollowsKeys ==
    /\ dimTimer.pending <= 1
    /\ phase \in {"setup", "running"} => viewState.cursorDimmed = ~dimTimer.live
    /\ (phase = "running" /\ lastStep.key # NoKey)
       => ~viewState.cursorDimmed /\ dimTimer.live /\ dimTimer.pending = 1

\* a key found the cursor dimmed and woke it
KeyWokeDimmedCursor ==
    /\ phase = "running"
    /\ lastStep.key # NoKey
    /\ lastStep.key.dimmed
    /\ ~viewState.cursorDimmed
    /\ dimTimer.pending = 1

\* C19: in the step in which the program quits, every child tracked at that
\* moment is sent the termination signal, the watcher is closed, its debounce
\* timer and the idle timer are cleared, and no child is waited for: the
\* children that were alive are still alive when the process exits.
QuitStopsEverything ==
    [][(phase = "running" /\ phase' = "exited")
       => /\ childProcesses \subseteq signalled'
          /\ childProcesses' = {}
          /\ ~watcher'
          /\ debounceTimer' = NoTimer
          /\ dimTimer' = createCursorDimTimer
          /\ procs' = procs]_vars

\* the program quit while children were running and the watcher was on
QuitWithChildrenAlive ==
    /\ phase = "exited"
    /\ lastStep.op = "quit"
    /\ watchEnabled
    /\ initialPromises = {}
    /\ signalled # {}
    /\ \A n \in signalled : procs[n] # <<>>

\* the packages a change of the file triggers
AffectedBy(filePath) ==
    LET triggeredPkgs == getTriggeredPackages(filePath) IN
    IF triggeredPkgs.matched
    THEN (IF triggeredPkgs.all THEN Names ELSE Range(triggeredPkgs.names) \cap Names)
    ELSE {getAffectedPackage(filePath)} \cap Names

\* the triggers a package received in the last step
TriggersOf(n, triggers) == Occurrences(triggers, n) + Occurrences(triggers, Everyone)

\* C20: when the debounce timeout of a burst of changes fires, every package
\* that a change of the burst affects receives exactly one rerun trigger.
BurstTriggersEachAffectedOnce ==
    [][lastStep'.op = "debounce"
       => \A n \in Names :
             (\E f \in burst : n \in AffectedBy(f))
             => TriggersOf(n, lastStep'.triggers) = 1]_vars

\* the mappings one of whose patterns matches the file
Matching(filePath) ==
    { m \in 1..Len(watchMappings) :
        \E k \in 1..Len(watchMappings[m].paths) :
           IsPrefix(watchMappings[m].paths[k], filePath) }

\* the packages whose directory holds the file
Containing(filePath) == { i \in 1..Len(packages) : IsPrefix(packages[i].path, filePath) }

Least(set) == CHOOSE i \in set : \A j \in set : i <= j

\* the triggers of the first matching mapping (a name that is no package
\* triggers nothing), and without a matching mapping the containing package
MappedTo(filePath) ==
    IF Matching(filePath) # {}
    THEN LET triggers == watchMappings[Least(Matching(filePath))].triggers IN
         IF triggers.all THEN <<Everyone>>
         ELSE SelectSeq(triggers.names, LAMBDA n : n \in Names)
    ELSE IF Containing(filePath) # {}
    THEN <<packages[Least(Containing(filePath))].name>>
    ELSE <<>>

\* C21: the packages triggered for a changed file are the triggers of the
\* first mapping that matches it, whatever package holds the file; the
\* package that holds the file is triggered only when no mapping matches.
MappingWinsOverContainment ==
    lastStep.op = "debounce" /\ lastStep.file # NoFile
    => lastStep.triggers = MappedTo(lastStep.file)

\* a file of package b that the first mapping sends to package a
MappedFileInsideOtherPackage ==
    /\ lastStep.op = "debounce"
    /\ lastStep.file = <<"pkgs", "b", "shared", "y">>
    /\ Containing(lastStep.file) # {}
    /\ Cardinality(Matching(lastStep.file)) = 2
    /\ lastStep.triggers = <<"a">>

\* the lines of a record that are DA lines of a source line
DAsOf(content, l) == { i \in 1..Len(content) : content[i].tag = "DA" /\ content[i].line = l }

\* the execution count of a source line: that of its last DA line
CountOf(content, l) == content[CHOOSE i \in DAsOf(content, l) : \A j \in DAsOf(content, l) : j <= i].value

\* some branch of the source line was not taken
SomeBranchNotTaken(content, l) ==
    \E i \in 1..Len(content) :
       /\ content[i].tag = "BRDA" /\ content[i].line = l
       /\ content[i].value \in {Unevaluated, 0}

\* C22: a line without a DA entry is not instrumented; with count 0 it is
\* uncovered whatever its branches are; with a count above 0 and a branch
\* not taken it is partial; otherwise it is covered.
LineStatusFollowsHitsThenBranches ==
    lcovRecord.read =>
       \A l \in SourceLines :
          lcovRecord.status[l] =
             IF DAsOf(lcovRecord.content, l) = {} THEN None
             ELSE IF CountOf(lcovRecord.content, l) = 0 THEN "uncovered"
             ELSE IF CountOf(lcovRecord.content, l) > 0 /\ SomeBranchNotTaken(lcovRecord.content, l)
             THEN "partial"
             ELSE "covered"

\* DA:1,0 with two branches of line 1, one of them taken: uncovered
UncoveredDespiteBranches ==
    /\ lcovRecord.read
    /\ lcovRecord.content = <<DA(1, 0), BRDA(1, 1), BRDA(1, Unevaluated)>>
    /\ lcovRecord.status[1] = "uncovered"
    /\ lcovRecord.status[2] = None

\* a failed count above 0 in the RunState of some package
SomeTestFailed ==
    IF cli.at = "interactive" THEN \E n \in Names : states[n].failed > 0
    ELSE \E n \in DOMAIN cli.failed : cli.failed[n] > 0

\* C23, as stated: the process exits with 1 exactly when it runs under CI
\* and some test failed, and with 0 in every other case.
ExitOneIffCIAndFailed ==
    ExitCode # NullNum
    => /\ ExitCode \in {0, 1}
       /\ ExitCode = 1 <=> (cli.isCI /\ SomeTestFailed)

\* C23, amended: a one-shot run that has run every package to its end
\* exits with 1 exactly when it runs under CI and some test failed, and
\* with 0 otherwise.
CompletedOneShotExitsOneIffCIAndFailed ==
    cli.at = "exit" /\ cli.why = "done"
    => /\ cli.code \in {0, 1}
       /\ cli.code = 1 <=> (cli.isCI /\ SomeTestFailed)

\* a failed test outside CI: exit code 0
FailedOutsideCIExitsZero ==
    /\ cli.at = "exit" /\ cli.why = "done"
    /\ ~cli.isCI
    /\ SomeTestFailed
    /\ cli.code = 0

\* the step is a stdout chunk or the exit of a process of some package
OutputOrExit == lastStep'.op \in {"stdout", "close"}

\* the exit completes a deferred run-all, which starts package m again
RestartedByRunAll(m) ==
    /\ lastStep'.op = "close"
    /\ pendingRunAll /\ ~pendingRunAll'
    /\ m \in Range(lastStep'.spawned)
    /\ states'[m] = ResetState(states[m])

\* the totals of the RunState are those of the final summary of the output
\* of the process that exited
TotalsOfOwnOutput ==
    lastStep'.op = "close" /\ lastStep'.completed # NoSnapshot
    => \E i \in 1..Len(procs[lastStep'.pkg]) :
          LET final == parseFinal(packages[PkgOf(lastStep'.pkg)].runner,
                                  procs[lastStep'.pkg][i].output)
          IN /\ lastStep'.completed.passed = final.passed
             /\ lastStep'.completed.skipped = final.skipped
             /\ lastStep'.completed.failed = final.failed
             /\ lastStep'.completed.tests = final.tests
             /\ lastStep'.completed.exitCode = lastStep'.code

\* C24, as stated: a stdout chunk or a process exit of one package changes
\* no RunState field of another package.
OtherRunStatesUntouched ==
    [][OutputOrExit
       => \A m \in Names \ {lastStep'.pkg} : states'[m] = states[m]]_vars

\* C24, amended: a stdout chunk or a process exit of one package changes no
\* RunState field of another package, unless the exit is the one that
\* completes a deferred run-all and so starts the other package again; the
\* RunState a run ends with is derived from the output and exit code of its
\* own process.
OtherRunStatesUntouchedButForRunAll ==
    [][/\ OutputOrExit
          => \A m \in Names \ {lastStep'.pkg} :
                states'[m] = states[m] \/ RestartedByRunAll(m)
       /\ TotalsOfOwnOutput]_vars

\* package a exits while package b is running with streamed counts
ExitBesideStreamingPackage ==
    /\ lastStep.op = "close" /\ lastStep.pkg = "a"
    /\ lastStep.completed # NoSnapshot
    /\ lastStep.completed.failed > 0
    /\ states["b"].status = "running"
    /\ states["b"].passed > 0

\* C25: provided every started process eventually exits, a rerun request
\* that was queued behind a running process is eventually honoured: no
\* name stays in pendingReruns forever.
QueuedRerunEventuallyLeavesQueue ==
    ("a" \in pendingReruns) ~> ("a" \notin pendingReruns)

\* C26: a run-all request made while every package is idle starts exactly
\* one run of each package and leaves no pending run-all behind (so that
\* the completion of those runs starts nothing further).
RunAllWhenIdleLeavesNothingPending ==
    [][(lastStep'.op = "rerun-all" /\ \A n \in Names : ~Running(n))
       => /\ lastStep'.spawned = AllPackages
          /\ ~pendingRunAll']_vars

\* the process that the step has launched for package n
Launched(n) == procs'[n][Len(procs'[n])]

\* C27: every process is launched with the coverage option equal to the
\* coverage flag its package has at the launch, also when the launch is a
\* queued rerun or a deferred run-all.
LaunchedWithCurrentFlag ==
    [][\A k \in 1..Len(lastStep'.spawned) :
          LET n == lastStep'.spawned[k] IN
          /\ procs'[n] # <<>>
          /\ Launched(n).coverageEnabled = coverageFlags'[n]]_vars

\* a queued rerun starts with coverage after a run without: the flag was
\* turned on while the package was running
QueuedRerunPicksUpNewFlag ==
    /\ lastStep.op = "close" /\ lastStep.pkg = "a"
    /\ lastStep.spawned = <<"a">>
    /\ lastStep.completed # NoSnapshot
    /\ lastStep.completed.coverage = None
    /\ procs["a"][Len(procs["a"])].coverageEnabled
    /\ coverageFlags["a"]

\* C28: whatever single toggles and coverage-all cycles have been made, a
\* step that writes the snapshot stores a mixed configuration (one package
\* on and one off); no step overwrites it with all on or all off.
SnapshotWrittenOnlyWhenMixed ==
    [][coverageSnapshot' # coverageSnapshot
       => getCoverageMode(coverageSnapshot') = "some"]_vars

\* a single toggle has made the flags mixed, b on and a off, and has saved
\* them in the snapshot
MixedFlagsSavedByToggle ==
    /\ lastStep.op = "coverage"
    /\ ~coverageFlags["a"] /\ coverageFlags["b"]
    /\ coverageSnapshot = coverageFlags

\* C29: a coverage-all cycle is never without effect: from every reachable
\* combination of flags and snapshot the cycle changes the coverage flag of
\* at least one package.
CycleChangesSomeFlag ==
    [][lastStep'.op = "coverage-all" => coverageFlags' # coverageFlags]_vars

\* C30: in every state whose current screen is Summary the popover is closed
\* and its scroll offset is 0: the way back from Tests closes it first.
SummaryHasNoPopover ==
    viewState.currentScreen = "summary"
    => /\ ~viewState.tests.popoverVisible
       /\ viewState.tests.popoverScrollOffset = 0

\* the way back was taken from the tests screen with the popover open and
\* scrolled down, and has arrived on the summary
BackFromScrolledPopover ==
    /\ viewState.currentScreen = "summary"
    /\ lastStep.key # NoKey
    /\ lastStep.key.evt.type = "horizontal"
    /\ lastStep.key.popover
    /\ lastStep.key.offset > 0

\* C31: the popover exists only on the tests screen: in every reachable
\* state popoverVisible implies that the current screen is Tests.
PopoverOnlyOnTests ==
    viewState.tests.popoverVisible => viewState.currentScreen = "tests"

\* C31 as the code has it: the popover opens only in a step that starts and
\* ends on the tests screen, and while popoverVisible is set the current
\* screen is Tests or, when the right key has carried the flag along,
\* Coverage.
PopoverOpensOnTestsAndFollowsToCoverage ==
    [][/\ (~viewState.tests.popoverVisible /\ viewState'.tests.popoverVisible)
          => /\ viewState.currentScreen = "tests"
             /\ viewState'.currentScreen = "tests"
       /\ viewState'.tests.popoverVisible
          => viewState'.currentScreen \in {"tests", "coverage"}]_vars

\* the right key was pressed on the open popover: the coverage screen is
\* current and popoverVisible is still set
PopoverFlagOnCoverage ==
    /\ viewState.currentScreen = "coverage"
    /\ viewState.tests.popoverVisible
    /\ lastStep.key # NoKey
    /\ lastStep.key.evt.type = "horizontal"
    /\ lastStep.key.popover

\* the step is a key pressed while the popover is open on the tests screen
PopoverKey ==
    /\ lastStep'.key # NoKey
    /\ lastStep'.key.popover
    /\ ~lastStep'.key.help
    /\ viewState.currentScreen = "tests"

\* C32: while the popover is open on the tests screen a key only scrolls the
\* popover body (vertical), closes the popover (escape, left), moves to
\* another screen (left, right), switches package (page keys), executes the
\* enter action or triggers an action; vertical keys, escape and enter leave
\* the selected test row, the selected package and the screen as they are.
PopoverConsumesKeys ==
    [][PopoverKey =>
         LET evt == lastStep'.key.evt
             was == viewState.tests
             now == viewState'.tests
         IN /\ evt.type \in {"vertical", "escape", "enter"}
               => /\ now.selectedIndex = was.selectedIndex
                  /\ selectedIndex' = selectedIndex
                  /\ viewState'.currentScreen = "tests"
            /\ evt.type = "vertical"
               => /\ now.popoverVisible
                  /\ now.popoverScrollOffset = Max(0, was.popoverScrollOffset + evt.direction)
            /\ evt.type = "escape" => ~now.popoverVisible /\ now.popoverScrollOffset = 0
            /\ evt.type = "enter" => now = was
            /\ evt.type = "horizontal" => viewState'.currentScreen # "tests"
            /\ evt.type = "vertical-page"
               => \/ selectedIndex' = selectedIndex /\ now = was
                  \/ selectedIndex' # selectedIndex /\ ~now.popoverVisible]_vars

\* the down key was pressed on the open popover of a list with a selectable
\* row below the cursor: the body has scrolled, the cursor has stayed
PopoverScrolledBesideLongerList ==
    /\ viewState.currentScreen = "tests"
    /\ viewState.tests.popoverVisible
    /\ lastStep.key # NoKey
    /\ lastStep.key.popover
    /\ lastStep.key.evt.type = "vertical"
    /\ lastStep.key.evt.direction = 1
    /\ viewState.tests.popoverScrollOffset = lastStep.key.offset + 1
    /\ \E i \in 1..Len(getSelectableIndices(buildTestRows(states[getSelectedPkg].testResults))) :
           getSelectableIndices(buildTestRows(states[getSelectedPkg].testResults))[i]
               > viewState.tests.selectedIndex

\* the step is a vertical key on a detail screen with neither overlay nor popover
ListKey(screen) ==
    /\ lastStep'.key # NoKey
    /\ lastStep'.key.evt.type = "vertical"
    /\ ~lastStep'.key.help
    /\ viewState.currentScreen = screen
    /\ ~(screen = "tests" /\ lastStep'.key.popover)

\* the selectable rows the handler of the step has found on a detail screen
SelectableFound(screen) ==
    IF screen = "tests"
    THEN getSelectableIndices(buildTestRows(states[getSelectedPkg].testResults))
    ELSE getSelectableFileIndices(
             buildCoverageRows([exists |-> lastStep'.key.files > 0,
                                files |-> lastStep'.key.files]))

\* the cursor after a vertical key as the statement has it
MovedOrNearest(selectable, cursor, direction) ==
    LET pos == indexOf(selectable, cursor) IN
    IF pos = 0 - 1 THEN Nearest(selectable, cursor)
    ELSE selectable[Max(0, Min(Len(selectable) - 1, pos + direction)) + 1]

\* C33: on the tests and coverage lists a vertical key moves the cursor to
\* the next or previous selectable row, leaves it at the first or last
\* selectable row, and from a non-selectable row moves it to the selectable
\* row nearest to it.
VerticalKeyMovesOrJumpsToNearest ==
    [][\A screen \in {"tests", "coverage"} :
          (ListKey(screen) /\ SelectableFound(screen) # <<>>)
          => viewState'[screen].selectedIndex =
                 MovedOrNearest(SelectableFound(screen), viewState[screen].selectedIndex,
                                lastStep'.key.evt.direction)]_vars

\* the cursor of a list is on one of its selectable rows, if it has any
OnSelectable(selectable, cursor) == selectable = <<>> \/ includes(selectable, cursor)

\* C34: whenever the tests or the coverage screen is current and its list
\* has a selectable row, the cursor of that screen is on a selectable row,
\* whatever cursor moves, package switches, screen changes and run
\* completions came before.
CursorOnSelectableRow ==
    /\ viewState.currentScreen = "tests"
       => OnSelectable(getSelectableIndices(buildTestRows(states[getSelectedPkg].testResults)),
                       viewState.tests.selectedIndex)
    /\ viewState.currentScreen = "coverage"
       => \A t \in Viewed.term :
             OnSelectable(getSelectableFileIndices(buildCoverageRows(t.lcov)),
                          viewState.coverage.selectedIndex)

\* "maxContentRows" of renderSplitView on a terminal
MaxContentRowsOf(t) == Max(1, ((t.rows - HEADER_LINES - FOOTER_LINES) \div 2) - 2)

\* C35: popoverScrollOffset always stays within [0, maxScroll], where
\* maxScroll is the number of popover body lines that do not fit in the box;
\* a down key pressed when the end of the body is visible does not raise it.
PopoverScrollWithinBody ==
    \A t \in Viewed.term :
        /\ viewState.tests.popoverScrollOffset >= 0
        /\ viewState.tests.popoverScrollOffset
              <= getPopoverMaxScroll(POPOVER_HEADER_LINES, t.body, MaxContentRowsOf(t))

\* the popover is drawn by the render of the tests screen
PopoverShown ==
    /\ viewState.currentScreen = "tests"
    /\ ~viewState.helpVisible
    /\ viewState.tests.popoverVisible
    /\ getSelectableIndices(buildTestRows(states[getSelectedPkg].testResults)) # <<>>

\* "boxHeight" of renderSplitView on a terminal
BoxHeightOn(t) ==
    LET testRows == buildTestRows(states[getSelectedPkg].testResults)
        cursorRow == viewState.tests.selectedIndex
        hasContent == cursorRow < Len(testRows) /\ testRows[cursorRow + 1] = "test"
    IN IF hasContent
       THEN getPopoverBoxHeight(POPOVER_HEADER_LINES, t.body, MaxContentRowsOf(t))
       ELSE 3

\* C36: whenever the popover is shown, on every content-area height, its box
\* height is header-lines + min(body-lines, available body rows) + 2 and is
\* at most half of the content area.
PopoverBoxAtMostHalf ==
    PopoverShown
    => \A t \in Resized.term :
          LET contentRows == t.rows - HEADER_LINES - FOOTER_LINES
              available == Max(0, MaxContentRowsOf(t) - POPOVER_HEADER_LINES)
          IN /\ BoxHeightOn(t) = POPOVER_HEADER_LINES + Min(t.body, available) + 2
             /\ 2 * BoxHeightOn(t) <= contentRows

\* C37: the fields of a RunState are written only by the scheduler: a step
\* that changes the RunState of a package starts a run of it, or is a stdout
\* chunk or the exit of one of its processes; navigation and modal keys,
\* coverage-flag operations, timer ticks and renders change none.
RunStateWrittenByScheduler ==
    [][\A n \in Names :
          states'[n] # states[n]
          => \/ n \in Range(lastStep'.spawned)
             \/ lastStep'.op \in {"stdout", "close"} /\ lastStep'.pkg = n]_vars

\* a coverage key has turned the flag off on the tests screen while the
\* package was running and its counts were not zero
FlagTurnedOffBesideRunningCounts ==
    /\ lastStep.op = "coverage"
    /\ lastStep.spawned = <<>>
    /\ viewState.currentScreen = "tests"
    /\ \E n \in Names : Running(n) /\ states[n].passed + states[n].failed > 0

\* C38: rendering is a pure projection of the state: a step that only
\* renders (the spinner tick), or whose handler assigns a cursor and then
\* renders (a vertical key), leaves every scrollOffset of the view state as
\* it was.
RenderLeavesScrollOffsets ==
    [][lastStep'.op \in {"spinner", "vertical"}
       => /\ viewState'.tests.scrollOffset = viewState.tests.scrollOffset
          /\ viewState'.coverage.scrollOffset = viewState.coverage.scrollOffset]_vars

\* C39: while file watching is disabled no file change starts or queues a
\* run: the watcher is closed and no debounce timer is armed, before the
\* first enabling and after a disabling that came within the debounce window
\* of a change; changes are received and looked up only while it is enabled.
NoWatchRunWhileDisabled ==
    [][/\ ~watchEnabled' => (~watcher' /\ ~debounceTimer'.armed)
       /\ lastStep'.op \in {"file-change", "debounce"} => (watchEnabled /\ watchEnabled')]_vars

\* the watch key has disabled the watcher while the debounce timer was
\* waiting for a changed file
DisabledWithinDebounceWindow ==
    /\ lastStep.op = "watch"
    /\ lastStep.file # NoFile
    /\ ~watchEnabled
    /\ ~debounceTimer.armed

\* C40: until the program quits, the tracked child processes are those of
\* the packages whose status is Running: a package is tracked from the step
\* that spawns its process to the step that makes its status Done.
TrackedAreTheRunning ==
    phase \in {"setup", "running"}
    => childProcesses = {n \in Names : Running(n)}

====
